---- MODULE Spec2Model ----
(***************************************************************************)
(* Verification model of the report pipeline of the Google Ads API        *)
(* example scripts:                                                       *)
(*   - the bounded-concurrency multi-report fetch of                      *)
(*     api_examples/parallel_report_downloader_optimized.py   (SpecFetch) *)
(*   - the date range, query builder, flattener and renderer of           *)
(*     api_examples/conversion_reports.py: the same steps started from    *)
(*     calls that vary the query (SpecQuery), the date range (SpecDates)  *)
(*     and the rows and the output file (SpecRender)                      *)
(*   - the scripts that send one request after the other and end at the   *)
(*     first failure: disapproved_ads_reports.py, ai_max_reports.py,      *)
(*     get_geo_targets.py, list_pmax_campaigns.py,                        *)
(*     create_campaign_experiment.py, add_campaign_with_date_times.py,    *)
(*     remove_automatically_created_assets.py           (SpecScripts)     *)
(***************************************************************************)
EXTENDS Integers, Sequences, FiniteSets, TLC

VARIABLES
    \* ---- parallel_report_downloader_optimized.main ----
    customer_ids,   \* the customer_ids argument of main
    mainPc,         \* position of the main thread
    futures,        \* future of task t: "queued" | "running" | "finished"
    behaviour,      \* what the collaborator did for task t (NoBehaviour until it ran)
    outcome,        \* what fetch_report_threaded did for task t (NoOutcome until it ran)
    yielded,        \* futures already yielded by as_completed
    all_results,    \* the dict all_results: label -> [rows, exception]
    slotWrites,     \* per task: the threads that assigned its slot of all_results, in order
    pool_shutdown,  \* the with-block has been left (executor.shutdown(wait=True) returned)
    printed,        \* label -> results section printed for it (empty before the loop)
    \* ---- conversion_reports.main(report_type="performance") ----
    qPc,                \* "idle" | "called" | "built" | "returned" | "exited" | "raised"
    start_date,         \* the start_date argument (<<>> for None)
    end_date,           \* the end_date argument (<<>> for None)
    date_range_preset,  \* the date_range_preset argument (<<>> for None)
    today,              \* the date datetime.now() returns, as <<year, month, day>>
    metrics,            \* the metrics argument
    filters,            \* the filters argument: each token split at its '=' signs
    order_by,           \* the order_by argument (<<>> for None)
    limit,              \* the limit argument (<<>> for None)
    output_format,      \* "console" | "csv"
    date_range,         \* (start_date_str, end_date_str) of _calculate_date_range
    all_select_fields,  \* the list all_select_fields
    query,              \* the query, as its sequence of tokens
    search_calls,       \* the queries passed to ga_service.search_stream
    stream,             \* the rows the collaborator's stream delivered, in order
    results_data,       \* the list results_data of row dictionaries
    stdout,             \* the lines printed
    csvfile,            \* the content of the file at output_file, as its characters
    exit_code,          \* <<>> while running or returned, <<1>> after sys.exit(1)
    uncaught,           \* the exception that left main uncaught (<<>>: none)
    \* ---- the scripts that send their requests one after the other ----
    script,         \* the script that runs ("": none)
    sPc,            \* "idle" | "called" | a position in main | "returned" | "exited" | "raised"
    args,           \* the arguments of main, and the time datetime.now() returns
    requests,       \* the requests sent to the collaborator so far, in order
    response,       \* what the collaborator does for the search_stream request of main
    all_rows,       \* the rows taken from the stream so far (the list all_rows)
    saved_csv,      \* the rows of the file the report goes to, the header first
    campaign        \* the campaign of the CampaignOperation that creates a campaign

fetchVars == <<customer_ids, mainPc, futures, behaviour, outcome, yielded,
               all_results, slotWrites, pool_shutdown, printed>>

queryVars == <<qPc, start_date, end_date, date_range_preset, today, metrics, filters, order_by, limit, output_format, date_range,
               all_select_fields, query, search_calls, stream, results_data, stdout,
               csvfile, exit_code, uncaught>>

\* queryVars without the variables the scripts below write as well.
queryOnlyVars == <<qPc, start_date, end_date, date_range_preset, today, metrics, filters,
                   order_by, limit, output_format, date_range, all_select_fields, query,
                   search_calls, stream, results_data, csvfile>>

scriptVars == <<script, sPc, args, requests, response, all_rows, saved_csv, campaign>>

vars == <<fetchVars, queryVars, scriptVars>>

\* Python's None where the other values are tuples: the empty tuple.
NoneVal == <<>>
\* A task the collaborator has not served yet; a task that has not run yet.
NoBehaviour == [fail |-> "pending", after |-> 0]
NoOutcome == [calls |-> 0, raised |-> NoneVal, ret |-> NoneVal]
\* No script runs: no arguments; no campaign built yet; no request sent yet.
NoArguments == [report_type |-> "", output_file |-> <<>>, campaign_id |-> <<>>,
                field_type |-> "", now |-> <<>>]
NoCampaign == [campaign_budget |-> "", start_date_time |-> "", end_date_time |-> ""]
NoException == [request_id |-> "", status |-> "", errors |-> <<>>]
NoStream == [rows |-> <<>>, fails |-> "no", ex |-> NoException]

(***************************************************************************)
(* Bounds of the model.                                                    *)
(***************************************************************************)
MaxBatches == 1     \* longest response stream, in batches
MaxFailures == 1    \* fetches per run that the collaborator lets fail
MaxMetrics == 2     \* longest metrics list
MaxFilters == 2     \* longest filters list
MaxRows == 2        \* most rows a report stream delivers
MaxYears == 1       \* years the clock ranges over, after the first one

(***************************************************************************)
(* parallel_report_downloader_optimized.py                                 *)
(***************************************************************************)
MAX_WORKERS == 5

\* The names of report_definitions, in list order.
report_definitions ==
    << "Campaign Performance (Last 30 Days)",
       "Ad Group Performance (Last 30 Days)",
       "Keyword Performance (Last 30 Days)" >>

\* Inputs: the customer_ids lists main is called with (nargs="+": non-empty,
\* repetitions allowed).
CustomerIdLists == { <<"111">>, <<"111", "222">>, <<"111", "111">> }

\* Tasks are numbered in submission order: the outer loop runs over the
\* customers, the inner loop over report_definitions.
NumTasks(ids) == Len(ids) * Len(report_definitions)
Tasks == 1 .. NumTasks(customer_ids)
CustomerOf(ids, t) == ids[((t - 1) \div Len(report_definitions)) + 1]
ReportOf(t) == report_definitions[((t - 1) % Len(report_definitions)) + 1]

\* report_name_with_customer = f"{report_def['name']} (Customer: {cust_id})":
\* the pair (name, customer id) determines the string and the string the pair.
Label(ids, t) == <<ReportOf(t), CustomerOf(ids, t)>>

\* The response stream of task t: StreamLen(t) batches, batch j carrying j rows.
StreamLen(t) == t % (MaxBatches + 1)
Batch(t, j) == [i \in 1 .. j |-> <<"row", t, j, i>>]

\* What the collaborator can do for one task:
\*   fail = "none":  the stream delivers all its batches and ends
\*   fail = "svc":   client.get_service raises
\*   fail = "gax":   search_stream, or the stream after `after` batches, raises
\*                   GoogleAdsException
\*   fail = "other": the same, raising any other exception
Behaviours(t) ==
    [fail : {"none"}, after : {StreamLen(t)}]
        \cup [fail : {"svc"}, after : {0}]
        \cup [fail : {"gax", "other"}, after : 0 .. StreamLen(t)]

GoogleAdsException(t) == <<"GoogleAdsException", t>>
OtherException(t) == <<"Exception", t>>

\* for row in batch.results: rows.append(row)
RECURSIVE AppendRows(_, _, _)
AppendRows(rows, batch, i) ==
    IF i > Len(batch) THEN rows
    ELSE AppendRows(Append(rows, batch[i]), batch, i + 1)

\* for batch in stream: ...   (the first k batches of the stream of task t)
RECURSIVE ConsumeBatches(_, _, _, _)
ConsumeBatches(rows, t, j, k) ==
    IF j > k THEN rows
    ELSE ConsumeBatches(AppendRows(rows, Batch(t, j), 1), t, j + 1, k)

\* fetch_report_threaded(client, customer_id, query, report_name) run against
\* collaborator behaviour b.  raised: the exception that leaves the function
\* (NoneVal if it returns); ret: the returned tuple; calls: the number of
\* search_stream invocations.
FetchReportThreadedNoCatch(report_name, t, b) ==
    IF b.fail = "none"
    THEN [calls |-> 1, raised |-> NoneVal,
          ret |-> <<report_name, ConsumeBatches(<<>>, t, 1, b.after), NoneVal>>]
    ELSE [calls |-> 1, raised |-> GoogleAdsException(t), ret |-> NoneVal]

FetchReportThreadedRetry(report_name, t, b) ==
    IF b.fail = "svc"
    THEN [calls |-> 0, raised |-> OtherException(t), ret |-> NoneVal]
    ELSE LET rows == ConsumeBatches(<<>>, t, 1, b.after)
         IN  IF b.fail = "none"
             THEN [calls |-> 1, raised |-> NoneVal,
                   ret |-> <<report_name, rows, NoneVal>>]
             ELSE IF b.fail = "gax"
             THEN [calls |-> 2, raised |-> NoneVal,
                   ret |-> <<report_name, rows, GoogleAdsException(t)>>]
             ELSE [calls |-> 1, raised |-> OtherException(t), ret |-> NoneVal]

FetchReportThreaded(report_name, t, b) ==
    IF b.fail = "svc"
    THEN \* line 59 is outside the try block
         [calls |-> 0, raised |-> OtherException(t), ret |-> NoneVal]
    ELSE LET rows == ConsumeBatches(<<>>, t, 1, b.after)
         IN  IF b.fail = "none"
             THEN [calls |-> 1, raised |-> NoneVal,
                   ret |-> <<report_name, rows, NoneVal>>]
             ELSE IF b.fail = "gax"
             THEN \* except GoogleAdsException as ex: exception = ex
                  [calls |-> 1, raised |-> NoneVal,
                   ret |-> <<report_name, rows, GoogleAdsException(t)>>]
             ELSE [calls |-> 1, raised |-> OtherException(t), ret |-> NoneVal]

\* report_name, rows, exception = future.result()
\* {"rows": rows, "exception": exception}
EntryOf(ret) == [rows |-> ret[2], exception |-> ret[3]]

\* all_results[report_name_with_customer] = {...}
StoreResult(results, label, ret) ==
    [l \in (DOMAIN results) \cup {label} |->
        IF l = label THEN EntryOf(ret) ELSE results[l]]

Running == {t \in Tasks : futures[t] = "running"}
Failed == {t \in Tasks : behaviour[t].fail \notin {"pending", "none"}}

\* A worker thread takes the next work item: the pool has max_workers threads
\* and its work queue is first in, first out.
CanStartUnbounded(t) ==
    /\ futures[t] = "queued"
    /\ \A u \in Tasks : u < t => futures[u] # "queued"

CanStart(t) ==
    /\ futures[t] = "queued"
    /\ \A u \in Tasks : u < t => futures[u] # "queued"
    /\ Cardinality(Running) < MAX_WORKERS

\* The with-block is left (executor.shutdown(wait=True) returns) only when
\* every work item has run.
CanLeavePool == \A t \in Tasks : futures[t] = "finished"

\* for future in as_completed(futures): the loop ends when every future has
\* been yielded.
SomeYielded == yielded # {}

AllYielded == yielded = Tasks

\* The print section of one entry of all_results.
SectionOf(entry) ==
    IF entry.exception # NoneVal THEN "failed"
    ELSE IF entry.rows = <<>> THEN "no data"
    ELSE "rows"

FetchInit ==
    /\ customer_ids \in CustomerIdLists
    /\ mainPc = "submit"
    /\ futures = <<>>
    /\ behaviour = <<>>
    /\ outcome = <<>>
    /\ yielded = {}
    /\ all_results = <<>>
    /\ slotWrites = <<>>
    /\ pool_shutdown = FALSE
    /\ printed = <<>>
    \* conversion_reports is not running
    /\ qPc = "idle"
    /\ start_date = <<>>
    /\ end_date = <<>>
    /\ date_range_preset = <<>>
    /\ today = <<>>
    /\ metrics = <<>>
    /\ filters = <<>>
    /\ order_by = <<>>
    /\ limit = <<>>
    /\ output_format = "console"
    /\ date_range = <<>>
    /\ all_select_fields = <<>>
    /\ query = <<>>
    /\ search_calls = <<>>
    /\ stream = <<>>
    /\ results_data = <<>>
    /\ stdout = <<>>
    /\ csvfile = <<>>
    /\ exit_code = <<>>
    /\ uncaught = <<>>
    \* no other script is running
    /\ script = ""
    /\ sPc = "idle"
    /\ args = NoArguments
    /\ requests = <<>>
    /\ response = NoStream
    /\ all_rows = <<>>
    /\ saved_csv = <<>>
    /\ campaign = NoCampaign

\* lines 158-172: every (customer, report) pair is submitted to the pool.
SubmitAll ==
    /\ mainPc = "submit"
    /\ mainPc' = "collect"
    /\ futures' = [t \in Tasks |-> "queued"]
    /\ behaviour' = [t \in Tasks |-> NoBehaviour]
    /\ outcome' = [t \in Tasks |-> NoOutcome]
    /\ slotWrites' = [t \in Tasks |-> <<>>]
    /\ UNCHANGED <<customer_ids, yielded, all_results, pool_shutdown, printed>>
    /\ UNCHANGED queryVars
    /\ UNCHANGED scriptVars

\* A pool thread starts running fetch_report_threaded for task t.
StartTask(t) ==
    /\ mainPc # "submit"
    /\ CanStart(t)
    /\ futures' = [futures EXCEPT ![t] = "running"]
    /\ UNCHANGED <<customer_ids, mainPc, behaviour, outcome, yielded,
                   all_results, slotWrites, pool_shutdown, printed>>
    /\ UNCHANGED queryVars
    /\ UNCHANGED scriptVars

\* fetch_report_threaded runs to its end for task t, against what the
\* collaborator does (b); its future becomes done.
FinishTask(t, b) ==
    /\ mainPc # "submit"
    /\ futures[t] = "running"
    /\ b.fail # "none" => Cardinality(Failed) < MaxFailures
    /\ futures' = [futures EXCEPT ![t] = "finished"]
    /\ behaviour' = [behaviour EXCEPT ![t] = b]
    /\ outcome' = [outcome EXCEPT ![t] =
                      FetchReportThreaded(Label(customer_ids, t), t, b)]
    /\ UNCHANGED <<customer_ids, mainPc, yielded, all_results, slotWrites,
                   pool_shutdown, printed>>
    /\ UNCHANGED queryVars
    /\ UNCHANGED scriptVars

\* lines 174-180: as_completed yields a finished future, once; future.result()
\* returns the tuple or re-raises what the fetch raised.
CollectResult(t) ==
    /\ mainPc = "collect"
    /\ ~AllYielded
    /\ futures[t] = "finished"
    /\ t \notin yielded
    /\ yielded' = yielded \cup {t}
    /\ IF outcome[t].raised # NoneVal
       THEN /\ mainPc' = "unwind"
            /\ UNCHANGED <<all_results, slotWrites>>
       ELSE /\ mainPc' = "collect"
            /\ all_results' =
                   StoreResult(all_results, Label(customer_ids, t), outcome[t].ret)
            /\ slotWrites' = [slotWrites EXCEPT ![t] =
                   Append(@, [thread |-> "MainThread",
                              label |-> Label(customer_ids, t),
                              entry |-> EntryOf(outcome[t].ret)])]
    /\ UNCHANGED <<customer_ids, futures, behaviour, outcome, pool_shutdown, printed>>
    /\ UNCHANGED queryVars
    /\ UNCHANGED scriptVars

\* The with-block ends: after the as_completed loop, or by the exception that
\* future.result() raised; shutdown(wait=True) waits for every work item.
LeavePool ==
    /\ \/ mainPc = "collect" /\ AllYielded
       \/ mainPc = "unwind"
    /\ CanLeavePool
    /\ pool_shutdown' = TRUE
    /\ mainPc' = IF mainPc = "unwind" THEN "raised" ELSE "print"
    /\ UNCHANGED <<customer_ids, futures, behaviour, outcome, yielded,
                   all_results, slotWrites, printed>>
    /\ UNCHANGED queryVars
    /\ UNCHANGED scriptVars

\* lines 183-199: one results section per entry of all_results.
PrintResults ==
    /\ mainPc = "print"
    /\ printed' = [l \in DOMAIN all_results |-> SectionOf(all_results[l])]
    /\ mainPc' = "done"
    /\ UNCHANGED <<customer_ids, futures, behaviour, outcome, yielded,
                   all_results, slotWrites, pool_shutdown>>
    /\ UNCHANGED queryVars
    /\ UNCHANGED scriptVars

FetchNext ==
    \/ SubmitAll
    \/ \E t \in Tasks : StartTask(t)
    \/ \E t \in Tasks : \E b \in Behaviours(t) : FinishTask(t, b)
    \/ \E t \in Tasks : CollectResult(t)
    \/ LeavePool
    \/ PrintResults


(***************************************************************************)
(* conversion_reports.py: get_conversion_performance_report                *)
(***************************************************************************)
\* Sequences over S of length 0 .. n.
SeqsUpTo(S, n) == UNION {[1 .. k -> S] : k \in 0 .. n}

\* Inputs.  A filter token is held as the list f.split('='): the token text is
\* its segments joined by '='.
MetricNames == {"conversions", "clicks", "segments.conversion_action_name"}
FilterTokens ==
    { <<"conversion_action_name", "Website_Sale">>,
      <<"min_conversions", "5">>,
      <<"min_conversions", "abc">>,
      <<"campaign_id", "123">>,
      <<"campaign_name_like", "test">>,
      <<"unrecognized_token", "x">> }
\* (order_by, limit, output_format) of a call.
CallShapes ==
    { <<<<>>, <<>>, "console">>,
      <<<<"clicks">>, <<5>>, "csv">>,
      <<<<"campaign.name">>, <<0>>, "console">>,
      <<<<>>, <<-1>>, "csv">> }
(***************************************************************************)
(* _calculate_date_range (lines 45-101).  A datetime is held as its date   *)
(* <<year, month, day>>: only the date is formatted.                       *)
(***************************************************************************)
IsLeap(y) == (y % 4 = 0 /\ y % 100 # 0) \/ y % 400 = 0

DaysInMonth(y, m) ==
    IF m = 2 THEN (IF IsLeap(y) THEN 29 ELSE 28)
    ELSE IF m \in {4, 6, 9, 11} THEN 30 ELSE 31

\* The dates the clock can show.
ClockYears == 2023 .. 2023 + MaxYears
ClockDates ==
    {d \in ClockYears \X (1 .. 12) \X (1 .. 31) : d[3] <= DaysInMonth(d[1], d[2])}

\* datetime arithmetic goes through the proleptic Gregorian ordinal of the date.
DaysBeforeYear(y) ==
    (y - 1) * 365 + ((y - 1) \div 4) - ((y - 1) \div 100) + ((y - 1) \div 400)

RECURSIVE DaysBeforeMonth(_, _)
DaysBeforeMonth(y, m) ==
    IF m = 1 THEN 0 ELSE DaysBeforeMonth(y, m - 1) + DaysInMonth(y, m - 1)

ToOrdinal(d) == DaysBeforeYear(d[1]) + DaysBeforeMonth(d[1], d[2]) + d[3]

FromOrdinal(n) ==
    LET y == CHOOSE yy \in 2020 .. 2023 + MaxYears + 1 :
                 DaysBeforeYear(yy) < n /\ n <= DaysBeforeYear(yy + 1)
        m == CHOOSE mm \in 1 .. 12 :
                 /\ DaysBeforeYear(y) + DaysBeforeMonth(y, mm) < n
                 /\ n <= DaysBeforeYear(y) + DaysBeforeMonth(y, mm) + DaysInMonth(y, mm)
    IN  <<y, m, n - DaysBeforeYear(y) - DaysBeforeMonth(y, m)>>

\* date - timedelta(days=n)
MinusDays(d, n) == FromOrdinal(ToOrdinal(d) - n)

\* date.replace(day=1)
ReplaceDayKept(d) == d

ReplaceDay1(d) == <<d[1], d[2], 1>>

\* datetime.strptime(text, "%Y-%m-%d") for the texts of the inputs: <<date>>
\* where it parses, <<>> where it raises ValueError.  The month and the day
\* may be written without a leading zero.
Strptime(text) ==
    CASE text = "2025-01-01" -> << <<2025, 1, 1>> >>
      [] text = "2025-01-31" -> << <<2025, 1, 31>> >>
      [] text = "2025-1-5" -> << <<2025, 1, 5>> >>
      [] text = "2024-02-29" -> << <<2024, 2, 29>> >>
      [] OTHER -> <<>>

\* date.strftime("%Y-%m-%d"), for a year of four digits
Pad2(n) == IF n < 10 THEN "0" \o ToString(n) ELSE ToString(n)
Strftime(d) == ToString(d[1]) \o "-" \o Pad2(d[2]) \o "-" \o Pad2(d[3])

\* Truthiness of an optional string argument: neither None nor "".
Given(arg) == arg # <<>> /\ arg[1] # ""

\* lines 66-92: (calculated_start_date, calculated_end_date), each <<>> for
\* None, or the ValueError of strptime.
CalculatedDatesIgnoringPreset(start_date_str, end_date_str, preset, now) ==
    IF Given(start_date_str) /\ Given(end_date_str)
    THEN LET s == Strptime(start_date_str[1])
             e == Strptime(end_date_str[1])
         IN  IF s = <<>> \/ e = <<>>
             THEN [raised |-> TRUE, start |-> <<>>, end |-> <<>>]
             ELSE [raised |-> FALSE, start |-> s, end |-> e]
    ELSE [raised |-> FALSE, start |-> <<>>, end |-> <<>>]

CalculatedDatesExplicitFirst(start_date_str, end_date_str, preset, now) ==
    IF Given(start_date_str) /\ Given(end_date_str)
    THEN CalculatedDatesIgnoringPreset(start_date_str, end_date_str, preset, now)
    ELSE IF preset = <<"LAST_7_DAYS">>
    THEN [raised |-> FALSE, start |-> <<MinusDays(now, 7)>>, end |-> <<now>>]
    ELSE [raised |-> FALSE, start |-> <<>>, end |-> <<>>]

CalculatedDates(start_date_str, end_date_str, preset, now) ==
    IF Given(preset)
    THEN LET p == preset[1]
             back(n) == [raised |-> FALSE, start |-> <<MinusDays(now, n)>>,
                         end |-> <<now>>]
         IN  CASE p = "LAST_7_DAYS" -> back(7)
               [] p = "LAST_10_DAYS" -> back(10)
               [] p = "LAST_30_DAYS" -> back(30)
               [] p = "LAST_32_DAYS" -> back(32)
               [] p = "LAST_MONTH" ->
                    LET first_day_of_current_month == ReplaceDay1(now)
                        calculated_end_date == MinusDays(first_day_of_current_month, 1)
                    IN  [raised |-> FALSE,
                         start |-> <<ReplaceDay1(calculated_end_date)>>,
                         end |-> <<calculated_end_date>>]
               [] p = "LAST_6_MONTHS" -> back(180)
               [] p = "LAST_YEAR" -> back(365)
               [] OTHER -> [raised |-> FALSE, start |-> <<>>, end |-> <<>>]
    ELSE IF Given(start_date_str) /\ Given(end_date_str)
    THEN LET s == Strptime(start_date_str[1])
             e == Strptime(end_date_str[1])
         IN  IF s = <<>> \/ e = <<>>
             THEN [raised |-> TRUE, start |-> <<>>, end |-> <<>>]
             ELSE [raised |-> FALSE, start |-> s, end |-> e]
    ELSE [raised |-> FALSE, start |-> <<>>, end |-> <<>>]

\* _calculate_date_range: its outcome.
\*   kind "return": ret is (start, end) formatted;
\*   kind "exit":   the message was printed and sys.exit(1) called;
\*   kind "raise":  ValueError left the function.
CalculateDateRange(start_date_str, end_date_str, preset, now) ==
    LET c == CalculatedDates(start_date_str, end_date_str, preset, now)
    IN  IF c.raised THEN [kind |-> "raise", ret |-> <<>>]
        ELSE IF c.start = <<>> \/ c.end = <<>> THEN [kind |-> "exit", ret |-> <<>>]
        ELSE [kind |-> "return", ret |-> <<Strftime(c.start[1]), Strftime(c.end[1])>>]

DateRangeMessage ==
    <<"Error: A date range must be specified either by preset or custom dates.">>

\* (start_date, end_date, date_range_preset) of a call together with the date
\* of the call: the calls of the query builder, and the calls that exercise
\* the date range.
QueryDateCalls ==
    { << <<"2025-1-5">>, <<"2025-01-31">>, <<>>, <<2023, 6, 15>> >>,
      << <<>>, <<>>, <<>>, <<2023, 6, 15>> >> }
ExplicitDateTexts ==
    { <<>>, <<"">>, <<"2025-01-01">>, <<"2025-01-31">>, <<"2025-1-5">>,
      <<"2024-02-29">>, <<"2025-02-30">>, <<"01/31/2025">> }
PresetTexts ==
    { <<"LAST_7_DAYS">>, <<"LAST_10_DAYS">>, <<"LAST_30_DAYS">>, <<"LAST_32_DAYS">>,
      <<"LAST_MONTH">>, <<"LAST_6_MONTHS">>, <<"LAST_YEAR">> }
RenderDateCalls ==
    { << <<"2025-01-01">>, <<"2025-01-31">>, <<>>, <<2023, 6, 15>> >> }
\* The explicit dates passed along with a recognized preset: none, one that
\* does not parse, and two that parse.
PresetCompanions ==
    { << <<>>, <<>> >>, << <<"01/31/2025">>, <<>> >>,
      << <<"2025-01-01">>, <<"2025-01-31">> >> }
DateCalls ==
    {<<c[1], c[2], p, d>> : c \in PresetCompanions, p \in PresetTexts, d \in ClockDates}
    \cup (ExplicitDateTexts \X ExplicitDateTexts
             \X {<<>>, <<"">>, <<"LAST_WEEK">>} \X {<<2023, 6, 15>>})

\* f.startswith(prefix + "=")
StartsWith(f, prefix) == Len(f) >= 2 /\ f[1] = prefix

FloatReprNeverRaises(text) ==
    CASE text = "5" -> <<"5.0">>
      [] text = "10" -> <<"10.0">>
      [] text = "2.5" -> <<"2.5">>
      [] OTHER -> <<"0.0">>

\* float(text) for the texts of the inputs: the texts it parses, with the
\* text an f-string renders the float as.  It raises ValueError on all others.
FloatRepr(text) ==
    CASE text = "5" -> <<"5.0">>
      [] text = "10" -> <<"10.0">>
      [] text = "2.5" -> <<"2.5">>
      [] OTHER -> <<>>

\* f"{limit}"
DecimalText(n) ==
    CASE n = -1 -> "-1"
      [] n = 0 -> "0"
      [] n = 5 -> "5"
      [] n = 10 -> "10"

\* lines 238-240: the condition that switches the FROM resource.
UsesCustomerResourceMetricsOnly(ms, fs) ==
    \E i \in 1 .. Len(ms) : ms[i] = "segments.conversion_action_name"

UsesCustomerResource(ms, fs) ==
    \/ \E i \in 1 .. Len(ms) : ms[i] = "segments.conversion_action_name"
    \/ \E i \in 1 .. Len(fs) : StartsWith(fs[i], "conversion_action_name")

\* lines 234-244
FromResource(ms, fs) ==
    IF UsesCustomerResource(ms, fs) THEN "customer" ELSE "campaign"

SelectFields(ms, fs) ==
    IF UsesCustomerResource(ms, fs)
    THEN <<"segments.date", "segments.conversion_action_name">>
    ELSE <<"segments.date", "campaign.id", "campaign.name">>

\* lines 246-260: the if/elif chain over the metrics, in the caller's order.
RECURSIVE MetricFields(_, _)
MetricFields(ms, i) ==
    IF i > Len(ms) THEN <<>>
    ELSE LET m == ms[i]
             field ==
                 CASE m = "conversions" -> <<"metrics.conversions">>
                   [] m = "all_conversions" -> <<"metrics.all_conversions">>
                   [] m = "conversions_value" -> <<"metrics.conversions_value">>
                   [] m = "all_conversions_value" -> <<"metrics.all_conversions_value">>
                   [] m = "clicks" -> <<"metrics.clicks">>
                   [] m = "impressions" -> <<"metrics.impressions">>
                   [] OTHER -> <<>>
         IN  field \o MetricFields(ms, i + 1)

Range(seq) == {seq[i] : i \in 1 .. Len(seq)}

\* line 262: list(set(select_fields + metric_fields)).  The iteration order
\* of a set of strings is not determined by the program (string hashing is
\* randomized per process): every ordering of the set is a possible list.
OrderingsOf(S) ==
    {o \in [1 .. Cardinality(S) -> S] : \A i, j \in 1 .. Cardinality(S) :
                                            i # j => o[i] # o[j]}

AllSelectFieldsLists(ms, fs) ==
    OrderingsOf(Range(SelectFields(ms, fs) \o MetricFields(ms, 1)))

\* lines 266-278: the where clauses, or the ValueError of float().  A clause
\* is the list of text pieces its f-string concatenates.
FilterClauseKeepUnknown(f) ==
    IF StartsWith(f, "conversion_action_name")
    THEN [error |-> FALSE,
          clause |-> << <<"segments.conversion_action_name = '", f[2], "'">> >>]
    ELSE IF StartsWith(f, "min_conversions")
    THEN IF FloatRepr(f[2]) = <<>>
         THEN [error |-> TRUE, clause |-> <<>>]
         ELSE [error |-> FALSE,
               clause |-> << <<"metrics.conversions > ", FloatRepr(f[2])[1], "">> >>]
    ELSE IF StartsWith(f, "campaign_id")
    THEN [error |-> FALSE, clause |-> << <<"campaign.id = ", f[2], "">> >>]
    ELSE IF StartsWith(f, "campaign_name_like")
    THEN [error |-> FALSE, clause |-> << <<"campaign.name LIKE '%", f[2], "%'">> >>]
    ELSE [error |-> FALSE, clause |-> << <<"", f[1], "">> >>]

FilterClause(f) ==
    IF StartsWith(f, "conversion_action_name")
    THEN [error |-> FALSE,
          clause |-> << <<"segments.conversion_action_name = '", f[2], "'">> >>]
    ELSE IF StartsWith(f, "min_conversions")
    THEN IF FloatRepr(f[2]) = <<>>
         THEN [error |-> TRUE, clause |-> <<>>]
         ELSE [error |-> FALSE,
               clause |-> << <<"metrics.conversions > ", FloatRepr(f[2])[1], "">> >>]
    ELSE IF StartsWith(f, "campaign_id")
    THEN [error |-> FALSE, clause |-> << <<"campaign.id = ", f[2], "">> >>]
    ELSE IF StartsWith(f, "campaign_name_like")
    THEN [error |-> FALSE, clause |-> << <<"campaign.name LIKE '%", f[2], "%'">> >>]
    ELSE [error |-> FALSE, clause |-> <<>>]

RECURSIVE WhereClauses(_, _, _)
WhereClauses(clauses, fs, i) ==
    IF i > Len(fs) THEN [error |-> FALSE, clauses |-> clauses]
    ELSE LET c == FilterClause(fs[i])
         IN  IF c.error THEN [error |-> TRUE, clauses |-> clauses]
             ELSE WhereClauses(clauses \o c.clause, fs, i + 1)

DateClause(dr) == <<"segments.date BETWEEN '", dr[1], "' AND '", dr[2], "'">>

\* lines 283-297
OrderByFieldVerbatim(ob) == <<"", ob>>

OrderByField(ob) ==
    IF ob \in {"conversions", "all_conversions", "conversions_value",
               "all_conversions_value", "clicks", "impressions"}
    THEN <<"metrics.", ob>>
    ELSE <<"", ob>>

\* sep.join(items), as tokens
RECURSIVE Join(_, _, _)
Join(items, sep, i) ==
    IF i > Len(items) THEN <<>>
    ELSE IF i = Len(items) THEN <<items[i]>>
    ELSE <<items[i], sep>> \o Join(items, sep, i + 1)

Kw(word) == <<"kw", word>>
Name(text) == <<"name", text>>

\* lines 264-302: query_parts joined by " ".  The query is held as its
\* tokens: keywords, names, and where clauses.
QueryTokensOrderFirst(fields, resource, clauses, ob, lim) ==
    <<Kw("SELECT")>> \o Join([i \in 1 .. Len(fields) |-> Name(fields[i])], Kw(","), 1)
        \o <<Kw("FROM"), Name(resource)>>
        \o (IF ob # <<>>
            THEN <<Kw("ORDER BY"), OrderByField(ob[1]), Kw("DESC")>>
            ELSE <<>>)
        \o (IF clauses # <<>>
            THEN <<Kw("WHERE")>> \o Join(clauses, Kw("AND"), 1)
            ELSE <<>>)
        \o (IF lim # <<>> /\ lim[1] # 0
            THEN <<Kw("LIMIT"), Name(DecimalText(lim[1]))>>
            ELSE <<>>)

QueryTokens(fields, resource, clauses, ob, lim) ==
    <<Kw("SELECT")>> \o Join([i \in 1 .. Len(fields) |-> Name(fields[i])], Kw(","), 1)
        \o <<Kw("FROM"), Name(resource)>>
        \o (IF clauses # <<>>
            THEN <<Kw("WHERE")>> \o Join(clauses, Kw("AND"), 1)
            ELSE <<>>)
        \o (IF ob # <<>>
            THEN <<Kw("ORDER BY"), OrderByField(ob[1]), Kw("DESC")>>
            ELSE <<>>)
        \o (IF lim # <<>> /\ lim[1] # 0
            THEN <<Kw("LIMIT"), Name(DecimalText(lim[1]))>>
            ELSE <<>>)

\* lines 311-337: the row dictionary of the i-th row of the stream, as its
\* (key, value) pairs in insertion order.
ColumnChain ==
    << <<"segments.date", "Date">>,
       <<"segments.conversion_action_name", "Conversion Action Name">>,
       <<"campaign.id", "Campaign ID">>,
       <<"campaign.name", "Campaign Name">>,
       <<"metrics.conversions", "Conversions">>,
       <<"metrics.all_conversions", "All Conversions">>,
       <<"metrics.conversions_value", "Conversions Value">>,
       <<"metrics.all_conversions_value", "All Conversions Value">>,
       <<"metrics.clicks", "Clicks">>,
       <<"metrics.impressions", "Impressions">> >>

DisplayName(field) ==
    (CHOOSE c \in Range(ColumnChain) : c[1] = field)[2]

\* A value of a row: a string (its characters), an integer, or a float with
\* one decimal (n tenths).
StrVal(chars) == [t |-> "str", s |-> chars, n |-> 0]
IntVal(n) == [t |-> "int", s |-> <<>>, n |-> n]
FloatVal(tenths) == [t |-> "float", s |-> <<>>, n |-> tenths]

\* The rows the collaborator can deliver, and the value each has for a field.
RowSeeds == {1, 2}
RowValue(field, seed) ==
    CASE field = "segments.date" ->
             StrVal(<<"2", "0", "2", "5", "-", "0", "1", "-", "0", ToString(seed)>>)
      [] field = "segments.conversion_action_name" ->
             IF seed = 1 THEN StrVal(<<"S", "a", "l", "e">>)
             ELSE StrVal(<<"a", ",", "\"", "b", "\"">>)
      [] field = "campaign.id" -> IntVal(120 + seed)
      [] field = "campaign.name" ->
             IF seed = 1 THEN StrVal(<<>>)
             ELSE StrVal(<<"S", "p", "r", "i", "n", "g", " ", "|", " ",
                           "Q", "1", "\n", "2", "0", "2", "5">>)
      [] field = "metrics.conversions" -> FloatVal(25 * seed)
      [] field = "metrics.clicks" -> IntVal(7 * seed * seed * seed * seed)
      [] OTHER -> FloatVal(0)

\* lines 311-337: the row dictionary of a row of the stream, as its
\* (key, value) pairs in insertion order.
RowDataInQueryOrder(fields, seed) ==
    [k \in 1 .. Len(fields) |-> <<DisplayName(fields[k]), RowValue(fields[k], seed)>>]

RowData(fields, seed) ==
    LET present == SelectSeq(ColumnChain, LAMBDA c : c[1] \in Range(fields))
    IN  [k \in 1 .. Len(present) |-> <<present[k][2], RowValue(present[k][1], seed)>>]

Keys(row_data) == [k \in 1 .. Len(row_data) |-> row_data[k][1]]
Values(row_data) == [k \in 1 .. Len(row_data) |-> row_data[k][2]]

(***************************************************************************)
(* _process_and_output_results (lines 104-144).  A text is the sequence of  *)
(* its characters; a printed line and the file content are texts.          *)
(***************************************************************************)
Repeat(ch, n) == [i \in 1 .. n |-> ch]

\* str(n) of a natural number
RECURSIVE Digits(_)
Digits(n) == IF n < 10 THEN <<ToString(n)>> ELSE Digits(n \div 10) \o <<ToString(n % 10)>>

\* str(value)
Str(v) ==
    CASE v.t = "str" -> v.s
      [] v.t = "int" -> Digits(v.n)
      [] v.t = "float" -> Digits(v.n \div 10) \o <<".">> \o Digits(v.n % 10)

\* The characters of a dictionary key.
Chars(key) ==
    CASE key = "Date" -> <<"D", "a", "t", "e">>
      [] key = "Conversion Action Name" ->
             <<"C", "o", "n", "v", "e", "r", "s", "i", "o", "n", " ",
               "A", "c", "t", "i", "o", "n", " ", "N", "a", "m", "e">>
      [] key = "Campaign ID" -> <<"C", "a", "m", "p", "a", "i", "g", "n", " ", "I", "D">>
      [] key = "Campaign Name" ->
             <<"C", "a", "m", "p", "a", "i", "g", "n", " ", "N", "a", "m", "e">>
      [] key = "Conversions" -> <<"C", "o", "n", "v", "e", "r", "s", "i", "o", "n", "s">>
      [] key = "All Conversions" ->
             <<"A", "l", "l", " ", "C", "o", "n", "v", "e", "r", "s", "i", "o", "n", "s">>
      [] key = "Conversions Value" ->
             <<"C", "o", "n", "v", "e", "r", "s", "i", "o", "n", "s", " ",
               "V", "a", "l", "u", "e">>
      [] key = "All Conversions Value" ->
             <<"A", "l", "l", " ", "C", "o", "n", "v", "e", "r", "s", "i", "o", "n", "s",
               " ", "V", "a", "l", "u", "e">>
      [] key = "Clicks" -> <<"C", "l", "i", "c", "k", "s">>
      [] key = "Impressions" -> <<"I", "m", "p", "r", "e", "s", "s", "i", "o", "n", "s">>

\* row_data[header]
ValueOf(row_data, header) ==
    row_data[CHOOSE k \in 1 .. Len(row_data) : row_data[k][1] = header][2]

Max(a, b) == IF a >= b THEN a ELSE b

\* lines 120-123: column_widths[header] after the first i rows.
RECURSIVE ColumnWidthHeaderOnly(_, _, _)
ColumnWidthHeaderOnly(data, header, i) == Len(Chars(header))

RECURSIVE ColumnWidth(_, _, _)
ColumnWidth(data, header, i) ==
    IF i = 0 THEN Len(Chars(header))
    ELSE Max(ColumnWidth(data, header, i - 1), Len(Str(ValueOf(data[i], header))))

\* text.ljust(width)
Ljust(text, width) ==
    IF Len(text) >= width THEN text ELSE text \o Repeat(" ", width - Len(text))

\* sep.join(texts)
RECURSIVE JoinTexts(_, _, _)
JoinTexts(texts, sep, i) ==
    IF i > Len(texts) THEN <<>>
    ELSE IF i = Len(texts) THEN texts[i]
    ELSE texts[i] \o sep \o JoinTexts(texts, sep, i + 1)

ColumnSeparator == <<" ", "|", " ">>

\* lines 119-137: the lines printed for a non-empty list of rows.
ConsoleLines(data) ==
    LET headers == Keys(data[1])
        column_widths ==
            [k \in 1 .. Len(headers) |-> ColumnWidth(data, headers[k], Len(data))]
        header_line ==
            JoinTexts([k \in 1 .. Len(headers) |->
                          Ljust(Chars(headers[k]), column_widths[k])],
                      ColumnSeparator, 1)
    IN  <<header_line, Repeat("-", Len(header_line))>>
        \o [i \in 1 .. Len(data) |->
               JoinTexts([k \in 1 .. Len(headers) |->
                             Ljust(Str(ValueOf(data[i], headers[k])), column_widths[k])],
                         ColumnSeparator, 1)]

\* csv.DictWriter with the default dialect: a field is quoted when it holds
\* the delimiter, the quote character or a character of the line terminator
\* (and when it is the empty only field of its record); quotes are doubled.
NeedsQuote(text) == \E i \in 1 .. Len(text) : text[i] \in {",", "\"", "\r", "\n"}

RECURSIVE DoubleQuotes(_, _)
DoubleQuotes(text, i) ==
    IF i > Len(text) THEN <<>>
    ELSE (IF text[i] = "\"" THEN <<"\"", "\"">> ELSE <<text[i]>>)
             \o DoubleQuotes(text, i + 1)

CsvFieldUnquoted(text, alone) == text

CsvField(text, alone) ==
    IF NeedsQuote(text) \/ (alone /\ text = <<>>)
    THEN <<"\"">> \o DoubleQuotes(text, 1) \o <<"\"">>
    ELSE text

CsvRecord(texts) ==
    JoinTexts([k \in 1 .. Len(texts) |-> CsvField(texts[k], Len(texts) = 1)], <<",">>, 1)
        \o <<"\r", "\n">>

\* lines 139-143: what the with-block writes to the file it opened.
CsvText(data) ==
    LET fieldnames == Keys(data[1])
    IN  CsvRecord([k \in 1 .. Len(fieldnames) |-> Chars(fieldnames[k])])
        \o JoinTexts([i \in 1 .. Len(data) |->
                         CsvRecord([k \in 1 .. Len(fieldnames) |->
                                       Str(ValueOf(data[i], fieldnames[k]))])],
                     <<>>, 1)

NoDataMessage == <<"No data found matching the criteria.">>
WrittenMessage == <<"Results successfully written to ", "output_file">>

\* The content a file left by an earlier run has.
StaleFile == <<"D", "a", "t", "e", "\r", "\n", "o", "l", "d", "\r", "\n">>

\* _process_and_output_results: the lines it prints, the content of the file
\* afterwards (prior: before the call), and the exception that leaves it.
\* open_ok says whether open(output_file, "w") succeeds.
ProcessAndOutputResultsOpenFirst(data, format, prior, open_ok) ==
    IF format = "csv" /\ ~open_ok
    THEN [stdout |-> <<>>, csv |-> prior, raised |-> <<"OSError">>]
    ELSE IF data = <<>>
    THEN [stdout |-> <<NoDataMessage>>,
          csv |-> IF format = "csv" THEN <<>> ELSE prior, raised |-> <<>>]
    ELSE IF format = "console"
    THEN [stdout |-> ConsoleLines(data), csv |-> prior, raised |-> <<>>]
    ELSE IF format = "csv"
    THEN [stdout |-> <<WrittenMessage>>, csv |-> CsvText(data), raised |-> <<>>]
    ELSE [stdout |-> <<>>, csv |-> prior, raised |-> <<>>]

ProcessAndOutputResultsSwallow(data, format, prior, open_ok) ==
    IF data = <<>>
    THEN [stdout |-> <<NoDataMessage>>, csv |-> prior, raised |-> <<>>]
    ELSE IF format = "console"
    THEN [stdout |-> ConsoleLines(data), csv |-> prior, raised |-> <<>>]
    ELSE IF format = "csv"
    THEN IF open_ok
         THEN [stdout |-> <<WrittenMessage>>, csv |-> CsvText(data), raised |-> <<>>]
         ELSE [stdout |-> << <<"Error:", "OSError">> >>, csv |-> prior, raised |-> <<>>]
    ELSE [stdout |-> <<>>, csv |-> prior, raised |-> <<>>]

ProcessAndOutputResults(data, format, prior, open_ok) ==
    IF data = <<>>
    THEN [stdout |-> <<NoDataMessage>>, csv |-> prior, raised |-> <<>>]
    ELSE IF format = "console"
    THEN [stdout |-> ConsoleLines(data), csv |-> prior, raised |-> <<>>]
    ELSE IF format = "csv"
    THEN IF open_ok
         THEN [stdout |-> <<WrittenMessage>>, csv |-> CsvText(data), raised |-> <<>>]
         ELSE [stdout |-> <<>>, csv |-> prior, raised |-> <<"OSError">>]
    ELSE [stdout |-> <<>>, csv |-> prior, raised |-> <<>>]

QueryInit ==
    /\ qPc = "called"
    /\ \E call \in QueryDateCalls :
          /\ start_date = call[1]
          /\ end_date = call[2]
          /\ date_range_preset = call[3]
          /\ today = call[4]
    /\ metrics \in SeqsUpTo(MetricNames, MaxMetrics)
    /\ filters \in SeqsUpTo(FilterTokens, MaxFilters)
    /\ \E shape \in CallShapes :
          /\ order_by = shape[1]
          /\ limit = shape[2]
          /\ output_format = shape[3]
    /\ date_range = <<>>
    /\ all_select_fields = <<>>
    /\ query = <<>>
    /\ search_calls = <<>>
    /\ stream = <<>>
    /\ results_data = <<>>
    /\ stdout = <<>>
    /\ csvfile = <<>>
    /\ exit_code = <<>>
    /\ uncaught = <<>>
    \* the parallel downloader is not running
    /\ customer_ids = <<>>
    /\ mainPc = "idle"
    /\ futures = <<>>
    /\ behaviour = <<>>
    /\ outcome = <<>>
    /\ yielded = {}
    /\ all_results = <<>>
    /\ slotWrites = <<>>
    /\ pool_shutdown = FALSE
    /\ printed = <<>>
    \* no other script is running
    /\ script = ""
    /\ sPc = "idle"
    /\ args = NoArguments
    /\ requests = <<>>
    /\ response = NoStream
    /\ all_rows = <<>>
    /\ saved_csv = <<>>
    /\ campaign = NoCampaign

\* Calls that exercise the date range: one metric, no filter, console output.
DatesInit ==
    /\ qPc = "called"
    /\ \E call \in DateCalls :
          /\ start_date = call[1]
          /\ end_date = call[2]
          /\ date_range_preset = call[3]
          /\ today = call[4]
    /\ metrics = <<"segments.conversion_action_name">>
    /\ filters = <<>>
    /\ order_by = <<>>
    /\ limit = <<>>
    /\ output_format = "console"
    /\ date_range = <<>>
    /\ all_select_fields = <<>>
    /\ query = <<>>
    /\ search_calls = <<>>
    /\ stream = <<>>
    /\ results_data = <<>>
    /\ stdout = <<>>
    /\ csvfile = <<>>
    /\ exit_code = <<>>
    /\ uncaught = <<>>
    \* the parallel downloader is not running
    /\ customer_ids = <<>>
    /\ mainPc = "idle"
    /\ futures = <<>>
    /\ behaviour = <<>>
    /\ outcome = <<>>
    /\ yielded = {}
    /\ all_results = <<>>
    /\ slotWrites = <<>>
    /\ pool_shutdown = FALSE
    /\ printed = <<>>
    \* no other script is running
    /\ script = ""
    /\ sPc = "idle"
    /\ args = NoArguments
    /\ requests = <<>>
    /\ response = NoStream
    /\ all_rows = <<>>
    /\ saved_csv = <<>>
    /\ campaign = NoCampaign

\* Calls that exercise the output: every metrics list, both formats, with and
\* without a file left at output_file by an earlier run.
RenderInit ==
    /\ qPc = "called"
    /\ \E call \in RenderDateCalls :
          /\ start_date = call[1]
          /\ end_date = call[2]
          /\ date_range_preset = call[3]
          /\ today = call[4]
    /\ metrics \in SeqsUpTo(MetricNames, MaxMetrics)
    /\ filters = <<>>
    /\ order_by = <<>>
    /\ limit = <<>>
    /\ output_format \in {"console", "csv"}
    /\ date_range = <<>>
    /\ all_select_fields = <<>>
    /\ query = <<>>
    /\ search_calls = <<>>
    /\ stream = <<>>
    /\ results_data = <<>>
    /\ stdout = <<>>
    /\ csvfile \in {<<>>, StaleFile}
    /\ exit_code = <<>>
    /\ uncaught = <<>>
    \* the parallel downloader is not running
    /\ customer_ids = <<>>
    /\ mainPc = "idle"
    /\ futures = <<>>
    /\ behaviour = <<>>
    /\ outcome = <<>>
    /\ yielded = {}
    /\ all_results = <<>>
    /\ slotWrites = <<>>
    /\ pool_shutdown = FALSE
    /\ printed = <<>>
    \* no other script is running
    /\ script = ""
    /\ sPc = "idle"
    /\ args = NoArguments
    /\ requests = <<>>
    /\ response = NoStream
    /\ all_rows = <<>>
    /\ saved_csv = <<>>
    /\ campaign = NoCampaign

\* lines 228-302: the query is built.  A ValueError of float() leaves the
\* function and is caught by main (lines 397-399): message, exit code 1.
BuildQuery ==
    /\ qPc = "called"
    /\ LET dates == CalculateDateRange(start_date, end_date, date_range_preset, today)
           where == WhereClauses(<<DateClause(dates.ret)>>, filters, 1)
       IN  IF dates.kind = "exit"
           THEN /\ qPc' = "exited"
                /\ exit_code' = <<1>>
                /\ stdout' = Append(stdout, DateRangeMessage)
                /\ UNCHANGED <<date_range, all_select_fields, query>>
           ELSE IF dates.kind = "raise"
           THEN /\ qPc' = "exited"
                /\ exit_code' = <<1>>
                /\ stdout' = Append(stdout, <<"Error:", "ValueError">>)
                /\ UNCHANGED <<date_range, all_select_fields, query>>
           ELSE IF where.error
           THEN /\ qPc' = "exited"
                /\ exit_code' = <<1>>
                /\ stdout' = Append(stdout, <<"Error:", "ValueError">>)
                /\ date_range' = dates.ret
                /\ UNCHANGED <<all_select_fields, query>>
           ELSE /\ qPc' = "built"
                /\ date_range' = dates.ret
                /\ all_select_fields' \in AllSelectFieldsLists(metrics, filters)
                /\ query' = QueryTokens(all_select_fields',
                                        FromResource(metrics, filters),
                                        where.clauses, order_by, limit)
                /\ UNCHANGED <<exit_code, stdout>>
    /\ UNCHANGED <<start_date, end_date, date_range_preset, today, metrics, filters,
                   order_by, limit, output_format, search_calls, stream,
                   results_data, csvfile, uncaught>>
    /\ UNCHANGED fetchVars
    /\ UNCHANGED scriptVars

\* lines 305-339: the stream delivers its rows and ends; every row is
\* flattened and the rows are output.  An exception of open() leaves the
\* function and main (lines 395-399 catch GoogleAdsException and ValueError).
ExecuteQuery(rows, open_ok) ==
    /\ qPc = "built"
    /\ search_calls' = Append(search_calls, query)
    /\ stream' = rows
    /\ results_data' = [i \in 1 .. Len(rows) |-> RowData(all_select_fields, rows[i])]
    /\ LET out == ProcessAndOutputResults(results_data', output_format, csvfile, open_ok)
       IN  /\ stdout' = stdout \o out.stdout
           /\ csvfile' = out.csv
           /\ uncaught' = out.raised
           /\ qPc' = IF out.raised = <<>> THEN "returned" ELSE "raised"
    /\ UNCHANGED <<start_date, end_date, date_range_preset, today, metrics, filters,
                   order_by, limit, output_format, date_range, all_select_fields,
                   query, exit_code>>
    /\ UNCHANGED fetchVars
    /\ UNCHANGED scriptVars

\* lines 341-342: search_stream or the stream raises GoogleAdsException;
\* handle_googleads_exception prints the diagnostic and exits with code 1.
ExecuteQueryFails ==
    /\ qPc = "built"
    /\ search_calls' = Append(search_calls, query)
    /\ stdout' = Append(stdout, <<"Request with ID", "failed">>)
    /\ exit_code' = <<1>>
    /\ qPc' = "exited"
    /\ UNCHANGED <<start_date, end_date, date_range_preset, today, metrics, filters,
                   order_by, limit, output_format, date_range, all_select_fields,
                   query, stream, results_data, csvfile, uncaught>>
    /\ UNCHANGED fetchVars
    /\ UNCHANGED scriptVars

QueryNext ==
    \/ BuildQuery
    \/ \E rows \in SeqsUpTo(RowSeeds, MaxRows) : \E open_ok \in BOOLEAN :
          ExecuteQuery(rows, open_ok)
    \/ ExecuteQueryFails

(***************************************************************************)
(* The scripts that send their requests one after the other.  What they    *)
(* share: the exception of the collaborator, its streams, the handlers.    *)
(***************************************************************************)
\* A GoogleAdsException as the handlers read it: request_id, the status name
\* error.code().name and failure.errors, each error with its message and the
\* field names of its location (none: no location).  A failure carries at
\* least one error.
GoogleAdsExceptions ==
    { [request_id |-> "req-1", status |-> "INVALID_ARGUMENT",
       errors |-> << [message |-> "Bad query", fields |-> <<>>] >>],
      [request_id |-> "req-2", status |-> "PERMISSION_DENIED",
       errors |-> << [message |-> "No access", fields |-> <<"customer_id">>],
                     [message |-> "Denied", fields |-> <<>>] >>] }

\* What search_stream does for one request: it raises when called ("call"),
\* or returns a stream that delivers rows (batch after batch, row after row)
\* and then ends ("no") or raises ("stream").
Streams(Rows) ==
    {[rows |-> r, fails |-> "no", ex |-> NoException] : r \in SeqsUpTo(Rows, MaxRows)}
    \cup {[rows |-> r, fails |-> "stream", ex |-> e] :
             r \in SeqsUpTo(Rows, MaxRows), e \in GoogleAdsExceptions}
    \cup {[rows |-> <<>>, fails |-> "call", ex |-> e] : e \in GoogleAdsExceptions}

\* What a mutate-style request does: it returns a result with a resource
\* name, or raises.
MutateOutcomes(names) ==
    {[ok |-> TRUE, ex |-> NoException, result |-> n] : n \in names}
    \cup {[ok |-> FALSE, ex |-> e, result |-> ""] : e \in GoogleAdsExceptions}

\* One entry of the log of requests sent to the collaborator.
Request(method, arg, ended, result, ex) ==
    [method |-> method, arg |-> arg, outcome |-> ended, result |-> result, ex |-> ex]

\* The lines of the diagnostic: the request id and the status, then for each
\* error its message and the field names of its location.
RECURSIVE ErrorLines(_, _)
ErrorLines(errors, i) ==
    IF i > Len(errors) THEN <<>>
    ELSE << <<"Error with message", errors[i].message>> >>
         \o [j \in 1 .. Len(errors[i].fields) |-> <<"On field:", errors[i].fields[j]>>]
         \o ErrorLines(errors, i + 1)

Diagnostic(ex) ==
    << <<"Request with ID", ex.request_id, "failed with status", ex.status>> >>
    \o ErrorLines(ex.errors, 1)

\* How a run goes on after a step: lines printed, the code of sys.exit (<<>>:
\* no exit), the exception left uncaught (<<>>: none).
Returned(lines) == [lines |-> lines, exit |-> <<>>, uncaught |-> <<>>]
Exited(lines) == [lines |-> lines, exit |-> <<1>>, uncaught |-> <<>>]
Raised(lines, exception) == [lines |-> lines, exit |-> <<>>, uncaught |-> <<exception>>]
Position(r) ==
    IF r.exit # <<>> THEN "exited" ELSE IF r.uncaught # <<>> THEN "raised" ELSE "returned"

\* The handler most scripts have: the diagnostic, then sys.exit(1).
HandleGoogleAdsException(ex) == Exited(Diagnostic(ex))

\* The handlers of get_geo_targets and ai_max_reports read ex.error.code.name:
\* code is the method the other handlers call, it has no attribute name, and
\* the AttributeError is raised while the first line is formatted.
HandleReadingCodeName(ex) == Raised(<<>>, "AttributeError")

\* The file a report is written to: the rows written to it, the header first
\* (<<>>: no file).  A file left by an earlier run:
StaleReport == << <<"Campaign ID">>, <<"999">> >>

(***************************************************************************)
(* disapproved_ads_reports.py                                              *)
(***************************************************************************)
\* Rows of the stream: ad_group_ad with its policy topic entries.
PolicyTopicEntries ==
    { [topic |-> "ALCOHOL", type_ |-> "PROHIBITED",
       evidences |-> << <<"beer", "wine">>, <<"gin">> >>],
      [topic |-> "TRADEMARKS", type_ |-> "LIMITED", evidences |-> <<>>],
      [topic |-> "", type_ |-> "UNKNOWN", evidences |-> << <<>>, <<"x; y">> >>] }
AdRows ==
    {[campaign_name |-> "Camp", campaign_id |-> "111", ad_id |-> ToString(Len(e)),
      ad_type |-> "TEXT_AD", approval_status |-> "DISAPPROVED",
      policy_topic_entries |-> e] :
        e \in {<<>>} \cup {<<a>> : a \in PolicyTopicEntries}
              \cup {<<a, b>> : a \in PolicyTopicEntries, b \in PolicyTopicEntries}}

DisapprovedAdsHeaders ==
    <<"Campaign Name", "Campaign ID", "Ad ID", "Ad Type", "Approval Status",
      "Policy Topic", "Policy Type", "Evidence Text">>

\* "; ".join(parts)
RECURSIVE SemicolonJoin(_, _)
SemicolonJoin(parts, i) ==
    IF i > Len(parts) THEN ""
    ELSE IF i = Len(parts) THEN parts[i]
    ELSE parts[i] \o "; " \o SemicolonJoin(parts, i + 1)

\* lines 84-89: the three lists filled over the entries of one row
PolicyTopics(entries) == [i \in 1 .. Len(entries) |-> entries[i].topic]
PolicyTypes(entries) == [i \in 1 .. Len(entries) |-> entries[i].type_]

RECURSIVE TextsOf(_, _)
TextsOf(evidences, j) ==
    IF j > Len(evidences) THEN <<>> ELSE evidences[j] \o TextsOf(evidences, j + 1)

RECURSIVE EvidenceTextsFirstOnly(_, _)
EvidenceTextsFirstOnly(entries, i) ==
    IF i > Len(entries) THEN <<>>
    ELSE (IF entries[i].evidences = <<>> THEN <<>> ELSE entries[i].evidences[1])
         \o EvidenceTextsFirstOnly(entries, i + 1)

RECURSIVE EvidenceTexts(_, _)
EvidenceTexts(entries, i) ==
    IF i > Len(entries) THEN <<>>
    ELSE TextsOf(entries[i].evidences, 1) \o EvidenceTexts(entries, i + 1)

\* lines 91-102 and 169-178: the row of the report; the campaign ID is the
\* row's in the report of all campaigns and the argument in the report of one.
ReportRow(result_row, campaign_id) ==
    <<result_row.campaign_name, campaign_id, result_row.ad_id, result_row.ad_type,
      result_row.approval_status,
      SemicolonJoin(PolicyTopics(result_row.policy_topic_entries), 1),
      SemicolonJoin(PolicyTypes(result_row.policy_topic_entries), 1),
      SemicolonJoin(EvidenceTexts(result_row.policy_topic_entries, 1), 1)>>

\* lines 182-189: the line printed for a row when no file is asked for
ConsoleLine(row_data) ==
    <<"Campaign Name:", row_data[1], "Campaign ID:", row_data[2], "Ad ID:", row_data[3],
      "Ad Type:", row_data[4], "Approval Status:", row_data[5],
      "Policy Topic:", row_data[6], "Policy Type:", row_data[7],
      "Evidence Text:", row_data[8]>>

\* _write_to_csv (lines 28-42): the file after it, and how it ends.  An error
\* of open() is not caught by it nor by main.
WriteToCsv(file_path, headers, response_rows, prior, open_ok) ==
    IF open_ok
    THEN [csv |-> <<headers>> \o response_rows,
          end |-> Returned(<< <<"Report written to", file_path>> >>)]
    ELSE [csv |-> prior, end |-> Raised(<<>>, "OSError")]

\* The calls of main: (report_type, output_file, campaign_id, field_type, now).
Arguments(report_type, output_file, campaign_id, field_type, clock) ==
    [report_type |-> report_type, output_file |-> output_file,
     campaign_id |-> campaign_id, field_type |-> field_type, now |-> clock]

\* main (lines 226-257) where it calls no report: a report type that is
\* neither "all" nor "single" (message, sys.exit(1)), or "single" without a
\* campaign ID (ValueError, caught in lines 255-257).
DisapprovedAdsMainRejects ==
    /\ script = "disapproved_ads_reports"
    /\ sPc = "called"
    /\ \/ args.report_type \notin {"all", "single"}
       \/ args.report_type = "single" /\ ~Given(args.campaign_id)
    /\ stdout' = Append(stdout,
                        IF args.report_type = "single"
                        THEN <<"Error:", "Campaign ID is required for 'single' report type.">>
                        ELSE <<"Unknown report type:", args.report_type>>)
    /\ exit_code' = <<1>>
    /\ sPc' = "exited"
    /\ UNCHANGED <<script, args, requests, response, all_rows, saved_csv, campaign,
                   uncaught>>
    /\ UNCHANGED fetchVars
    /\ UNCHANGED queryOnlyVars

\* main with report_type "all" and get_all_disapproved_ads (lines 55-117):
\* the stream is consumed into all_rows, then the file is written.
GetAllDisapprovedAds(s, open_ok) ==
    /\ script = "disapproved_ads_reports"
    /\ sPc = "called"
    /\ args.report_type = "all"
    /\ LET output_file == IF Given(args.output_file) THEN args.output_file[1]
                          ELSE "saved_csv/disapproved_ads_all_campaigns.csv"
           rows == [i \in 1 .. Len(s.rows) |-> ReportRow(s.rows[i], s.rows[i].campaign_id)]
           written == WriteToCsv(output_file, DisapprovedAdsHeaders, rows, saved_csv, open_ok)
           end == IF s.fails # "no" THEN HandleGoogleAdsException(s.ex) ELSE written.end
       IN  /\ requests' = Append(requests,
                                 Request("search_stream", "ad_group_ad",
                                         IF s.fails = "no" THEN "ok" ELSE "failed", "", s.ex))
           /\ response' = s
           /\ all_rows' = rows
           /\ saved_csv' = IF s.fails # "no" THEN saved_csv ELSE written.csv
           /\ stdout' = stdout \o end.lines
           /\ exit_code' = end.exit
           /\ uncaught' = end.uncaught
           /\ sPc' = Position(end)
    /\ UNCHANGED <<script, args, campaign>>
    /\ UNCHANGED fetchVars
    /\ UNCHANGED queryOnlyVars

\* main with report_type "single" and get_disapproved_ads_for_campaign (lines
\* 134-207): each row is printed as it arrives when output_file is None; the
\* file is written after the stream when output_file is not empty.
GetDisapprovedAdsForCampaign(s, open_ok) ==
    /\ script = "disapproved_ads_reports"
    /\ sPc = "called"
    /\ args.report_type = "single"
    /\ Given(args.campaign_id)
    /\ LET rows == [i \in 1 .. Len(s.rows) |-> ReportRow(s.rows[i], args.campaign_id[1])]
           notice == IF Given(args.output_file) THEN <<>>
                     ELSE << <<"No output file specified. Printing results for campaign",
                               args.campaign_id[1]>> >>
           console == IF args.output_file = <<>>
                      THEN [i \in 1 .. Len(rows) |-> ConsoleLine(rows[i])]
                      ELSE <<>>
           written == WriteToCsv(args.output_file[1], DisapprovedAdsHeaders, rows,
                                 saved_csv, open_ok)
           end == IF s.fails # "no" THEN HandleGoogleAdsException(s.ex)
                  ELSE IF Given(args.output_file) THEN written.end
                  ELSE IF rows = <<>>
                  THEN Returned(<< <<"No disapproved ads found for campaign ID:",
                                     args.campaign_id[1]>> >>)
                  ELSE Returned(<<>>)
       IN  /\ requests' = Append(requests,
                                 Request("search_stream", "ad_group_ad",
                                         IF s.fails = "no" THEN "ok" ELSE "failed", "", s.ex))
           /\ response' = s
           /\ all_rows' = rows
           /\ saved_csv' = IF s.fails = "no" /\ Given(args.output_file)
                           THEN written.csv ELSE saved_csv
           /\ stdout' = stdout \o notice \o console \o end.lines
           /\ exit_code' = end.exit
           /\ uncaught' = end.uncaught
           /\ sPc' = Position(end)
    /\ UNCHANGED <<script, args, campaign>>
    /\ UNCHANGED fetchVars
    /\ UNCHANGED queryOnlyVars

(***************************************************************************)
(* ai_max_reports.py                                                       *)
(***************************************************************************)
AiMaxReports ==
    [campaign_details |->
        [file |-> "saved_csv/ai_max_campaign_details.csv",
         resource |-> "expanded_landing_page_view",
         headers |-> <<"Campaign ID", "Campaign Name", "Expanded Landing Page URL",
                       "AI Max Enabled">>],
     landing_page_matches |->
        [file |-> "saved_csv/ai_max_landing_page_matches.csv",
         resource |-> "expanded_landing_page_view",
         headers |-> <<"Campaign ID", "Campaign Name", "Expanded Landing Page URL">>],
     search_terms |->
        [file |-> "saved_csv/ai_max_search_terms.csv",
         resource |-> "ai_max_search_term_ad_combination_view",
         headers |-> <<"Campaign ID", "Campaign Name", "Search Term", "Impressions",
                       "Clicks", "Cost (micros)", "Conversions">>]]

\* list(row) for the row of a stream: one value for each selected field.
RowList(headers, seed) ==
    [i \in 1 .. Len(headers) |->
        IF i = 1 THEN ToString(seed) ELSE headers[i] \o " " \o ToString(seed)]

\* _write_to_csv (lines 32-52): the file is opened and the header written,
\* then the stream is consumed row by row into the file; an exception of the
\* stream leaves the function with the rows written so far in the file.
WriteResponseToCsv(file_path, headers, s, prior, open_ok) ==
    LET written == <<headers>> \o [i \in 1 .. Len(s.rows) |-> RowList(headers, s.rows[i])]
    IN  IF ~open_ok THEN [csv |-> prior, end |-> Raised(<<>>, "OSError")]
        ELSE IF s.fails = "stream"
        THEN [csv |-> written, end |-> Raised(<<>>, "GoogleAdsException")]
        ELSE [csv |-> written, end |-> Returned(<< <<"Report written to", file_path>> >>)]

\* main (lines 177-186) with a report type it does not know.
AiMaxMainRejects ==
    /\ script = "ai_max_reports"
    /\ sPc = "called"
    /\ args.report_type \notin DOMAIN AiMaxReports
    /\ stdout' = Append(stdout, <<"Unknown report type:", args.report_type>>)
    /\ exit_code' = <<1>>
    /\ sPc' = "exited"
    /\ UNCHANGED <<script, args, requests, response, all_rows, saved_csv, campaign,
                   uncaught>>
    /\ UNCHANGED fetchVars
    /\ UNCHANGED queryOnlyVars

\* main with one of the three reports (lines 62-88, 100-120, 130-166): the
\* request, then _write_to_csv on its stream; a GoogleAdsException of either
\* reaches the handler of main (lines 187-197).
AiMaxReport(s, open_ok) ==
    /\ script = "ai_max_reports"
    /\ sPc = "called"
    /\ args.report_type \in DOMAIN AiMaxReports
    /\ LET report == AiMaxReports[args.report_type]
           written == WriteResponseToCsv(report.file, report.headers, s, saved_csv, open_ok)
           end == IF s.fails = "call" THEN HandleReadingCodeName(s.ex)
                  ELSE IF written.end.uncaught = <<"GoogleAdsException">>
                  THEN HandleReadingCodeName(s.ex)
                  ELSE written.end
           failed == s.fails = "call" \/ (s.fails = "stream" /\ open_ok)
       IN  /\ requests' = Append(requests,
                                 Request("search_stream", report.resource,
                                         IF failed THEN "failed" ELSE "ok", "",
                                         IF failed THEN s.ex ELSE NoException))
           /\ response' = s
           /\ saved_csv' = IF s.fails = "call" THEN saved_csv ELSE written.csv
           /\ stdout' = stdout \o end.lines
           /\ exit_code' = end.exit
           /\ uncaught' = end.uncaught
           /\ sPc' = Position(end)
    /\ UNCHANGED <<script, args, all_rows, campaign>>
    /\ UNCHANGED fetchVars
    /\ UNCHANGED queryOnlyVars

(***************************************************************************)
(* list_pmax_campaigns.py                                                  *)
(***************************************************************************)
PmaxRows == { [name |-> "PMax 1", advertising_channel_type |-> "PERFORMANCE_MAX"],
              [name |-> "PMax 2", advertising_channel_type |-> "PERFORMANCE_MAX"] }

\* main (lines 34-65) under the handler of the command line (lines 84-96):
\* the request is sent outside the try of main, the rows are printed as they
\* arrive inside it; both handlers print the diagnostic and exit with code 1.
ListPmaxCampaigns(s) ==
    /\ script = "list_pmax_campaigns"
    /\ sPc = "called"
    /\ LET printed_rows ==
               [i \in 1 .. Len(s.rows) |->
                   <<"Campaign with name", s.rows[i].name, "is a",
                     s.rows[i].advertising_channel_type, "campaign.">>]
           end == IF s.fails # "no" THEN HandleGoogleAdsException(s.ex) ELSE Returned(<<>>)
       IN  /\ requests' = Append(requests,
                                 Request("search_stream", "campaign",
                                         IF s.fails = "no" THEN "ok" ELSE "failed", "", s.ex))
           /\ response' = s
           /\ stdout' = stdout \o printed_rows \o end.lines
           /\ exit_code' = end.exit
           /\ uncaught' = end.uncaught
           /\ sPc' = Position(end)
    /\ UNCHANGED <<script, args, all_rows, saved_csv, campaign>>
    /\ UNCHANGED fetchVars
    /\ UNCHANGED queryOnlyVars

(***************************************************************************)
(* get_geo_targets.py                                                      *)
(***************************************************************************)
\* Rows of the campaign_criterion stream.
CriterionRows ==
    { [campaign_id |-> "123", campaign_name |-> "Test Campaign", negative |-> "False",
       criterion_id |-> "21137"],
      [campaign_id |-> "456", campaign_name |-> "Other Campaign", negative |-> "True",
       criterion_id |-> "2840"] }

\* What the request for one geo target constant does: its stream delivers the
\* constant ("found"), delivers no row ("none"), or the request or its stream
\* raises GoogleAdsException.
Lookups ==
    {[kind |-> k, ex |-> NoException] : k \in {"found", "none"}}
    \cup {[kind |-> "raises", ex |-> e] : e \in GoogleAdsExceptions}

\* (name, canonical_name, country_code) of the geo target constants.
GeoTargetConstant(criterion_id) ==
    IF criterion_id = "21137" THEN <<"New York", "New York,United States", "US">>
    ELSE <<"United States", "United States", "US">>

\* lines 69-88: the three details, "Unknown" unless a row was delivered
GeoTargetDetailsBlank(l, criterion_id) ==
    IF l.kind = "found" THEN GeoTargetConstant(criterion_id) ELSE <<"", "", "">>

GeoTargetDetails(l, criterion_id) ==
    IF l.kind = "found" THEN GeoTargetConstant(criterion_id)
    ELSE <<"Unknown", "Unknown", "Unknown">>

\* lines 47-49: the request for the criteria; its stream is consumed row
\* by row by the steps below.
GeoSearch(s) ==
    /\ script = "get_geo_targets"
    /\ sPc = "called"
    /\ LET end == IF s.fails = "call" THEN HandleReadingCodeName(s.ex)
                  ELSE Returned(<< <<"Geo targets found:">> >>)
       IN  /\ requests' = Append(requests,
                                 Request("search_stream", "campaign_criterion",
                                         IF s.fails = "call" THEN "failed" ELSE "open", "",
                                         IF s.fails = "call" THEN s.ex ELSE NoException))
           /\ response' = s
           /\ stdout' = stdout \o end.lines
           /\ exit_code' = end.exit
           /\ uncaught' = end.uncaught
           /\ sPc' = IF s.fails = "call" THEN Position(end) ELSE "streaming"
    /\ UNCHANGED <<script, args, all_rows, saved_csv, campaign>>
    /\ UNCHANGED fetchVars
    /\ UNCHANGED queryOnlyVars

\* lines 51-97: the body of the loop for the next row of the stream: the
\* request for its geo target constant inside the inner try, the line of the
\* inner handler, the line that reports the criterion.
GeoLookup(l) ==
    /\ script = "get_geo_targets"
    /\ sPc = "streaming"
    /\ Len(all_rows) < Len(response.rows)
    /\ LET row == response.rows[Len(all_rows) + 1]
           geo_target_constant_resource_name == "geoTargetConstants/" \o row.criterion_id
           details == GeoTargetDetails(l, row.criterion_id)
           error_line ==
               IF l.kind = "raises"
               THEN << <<"Error retrieving geo target details for",
                         geo_target_constant_resource_name, l.ex.errors[1].message>> >>
               ELSE <<>>
       IN  /\ requests' = Append(requests,
                                 Request("search_stream", geo_target_constant_resource_name,
                                         IF l.kind = "raises" THEN "failed" ELSE "ok", "", l.ex))
           /\ all_rows' = Append(all_rows, row)
           /\ stdout' = stdout \o error_line
                        \o << <<"Campaign with ID", row.campaign_id, row.campaign_name,
                                details[1], details[2], details[3], row.negative>> >>
    /\ UNCHANGED <<script, sPc, args, response, saved_csv, campaign, exit_code, uncaught>>
    /\ UNCHANGED fetchVars
    /\ UNCHANGED queryOnlyVars

\* lines 50 and 98-107: after its last row the stream of the criteria ends,
\* or raises GoogleAdsException into the outer handler.
GeoStreamEnds ==
    /\ script = "get_geo_targets"
    /\ sPc = "streaming"
    /\ Len(all_rows) = Len(response.rows)
    /\ LET end == IF response.fails = "stream" THEN HandleReadingCodeName(response.ex)
                  ELSE Returned(<<>>)
       IN  /\ requests' = [requests EXCEPT
                              ![1].outcome = IF response.fails = "stream" THEN "failed" ELSE "ok",
                              ![1].ex = response.ex]
           /\ stdout' = stdout \o end.lines
           /\ exit_code' = end.exit
           /\ uncaught' = end.uncaught
           /\ sPc' = Position(end)
    /\ UNCHANGED <<script, args, response, all_rows, saved_csv, campaign>>
    /\ UNCHANGED fetchVars
    /\ UNCHANGED queryOnlyVars

(***************************************************************************)
(* create_campaign_experiment.py                                           *)
(***************************************************************************)
\* The experiment and the draft campaign main holds are the resource names the
\* first and the second request returned: reqs[1].result, reqs[2].result.
\* lines 50-52: the request that starts the experiment
ScheduleRequestForDraft(reqs, o) ==
    Request("schedule_experiment", reqs[2].result, IF o.ok THEN "ok" ELSE "failed", "", o.ex)

ScheduleRequest(reqs, o) ==
    Request("schedule_experiment", reqs[1].result, IF o.ok THEN "ok" ELSE "failed", "", o.ex)

\* create_experiment_resource (lines 56-82); its exception leaves main and is
\* handled at the command line (lines 229-241).
CreateExperimentResource(o) ==
    /\ script = "create_campaign_experiment"
    /\ sPc = "called"
    /\ LET end == IF o.ok
                  THEN Returned(<< <<"Created experiment with resource name", o.result>> >>)
                  ELSE HandleGoogleAdsException(o.ex)
       IN  /\ requests' = Append(requests,
                                 Request("mutate_experiments", "SEARCH_CUSTOM",
                                         IF o.ok THEN "ok" ELSE "failed", o.result, o.ex))
           /\ stdout' = stdout \o end.lines
           /\ exit_code' = end.exit
           /\ uncaught' = end.uncaught
           /\ sPc' = IF o.ok THEN "experiment_created" ELSE Position(end)
    /\ UNCHANGED <<script, args, response, all_rows, saved_csv, campaign>>
    /\ UNCHANGED fetchVars
    /\ UNCHANGED queryOnlyVars

\* create_experiment_arms (lines 85-151): both arms in one request, for the
\* experiment created; the result names the draft campaign.
CreateExperimentArms(o) ==
    /\ script = "create_campaign_experiment"
    /\ sPc = "experiment_created"
    /\ LET end == IF o.ok
                  THEN Returned(<< <<"Created control arm with resource name">>,
                                   <<"Created treatment arm with resource name">>,
                                   <<"Draft campaign for treatment arm:", o.result>> >>)
                  ELSE HandleGoogleAdsException(o.ex)
       IN  /\ requests' = Append(requests,
                                 Request("mutate_experiment_arms", requests[1].result,
                                         IF o.ok THEN "ok" ELSE "failed", o.result, o.ex))
           /\ stdout' = stdout \o end.lines
           /\ exit_code' = end.exit
           /\ uncaught' = end.uncaught
           /\ sPc' = IF o.ok THEN "arms_created" ELSE Position(end)
    /\ UNCHANGED <<script, args, response, all_rows, saved_csv, campaign>>
    /\ UNCHANGED fetchVars
    /\ UNCHANGED queryOnlyVars

\* modify_treatment_campaign (lines 154-201).  Its handler prints its first
\* line and then reads ex.errors: a GoogleAdsException has request_id, error,
\* call and failure, so the read raises AttributeError, which nothing catches.
ModifyTreatmentCampaign(o) ==
    /\ script = "create_campaign_experiment"
    /\ sPc = "arms_created"
    /\ LET draft_campaign_resource_name == requests[2].result
           end == IF o.ok
                  THEN Returned(<< <<"Updated draft campaign", draft_campaign_resource_name>> >>)
                  ELSE Raised(<< <<"Failed to modify draft campaign",
                                   draft_campaign_resource_name, o.ex.request_id,
                                   o.ex.status>> >>, "AttributeError")
       IN  /\ requests' = Append(requests,
                                 Request("mutate_campaigns", draft_campaign_resource_name,
                                         IF o.ok THEN "ok" ELSE "failed", "", o.ex))
           /\ stdout' = stdout \o end.lines
           /\ exit_code' = end.exit
           /\ uncaught' = end.uncaught
           /\ sPc' = IF o.ok THEN "draft_modified" ELSE Position(end)
    /\ UNCHANGED <<script, args, response, all_rows, saved_csv, campaign>>
    /\ UNCHANGED fetchVars
    /\ UNCHANGED queryOnlyVars

\* main, lines 50-53: the experiment is scheduled.
ScheduleExperiment(o) ==
    /\ script = "create_campaign_experiment"
    /\ sPc = "draft_modified"
    /\ LET scheduling == << <<"Scheduling experiment with resource name",
                              requests[1].result>> >>
           end == IF o.ok THEN Returned(<< <<"Experiment scheduled successfully.">> >>)
                  ELSE HandleGoogleAdsException(o.ex)
       IN  /\ requests' = Append(requests, ScheduleRequest(requests, o))
           /\ stdout' = stdout \o scheduling \o end.lines
           /\ exit_code' = end.exit
           /\ uncaught' = end.uncaught
           /\ sPc' = Position(end)
    /\ UNCHANGED <<script, args, response, all_rows, saved_csv, campaign>>
    /\ UNCHANGED fetchVars
    /\ UNCHANGED queryOnlyVars

(***************************************************************************)
(* add_campaign_with_date_times.py                                         *)
(***************************************************************************)
\* datetime.now(): <<year, month, day, hour, minute, second>>
Nows ==
    {<<d[1], d[2], d[3], t[1], t[2], t[3]>> :
        d \in ClockDates, t \in {<<0, 0, 0>>, <<23, 59, 59>>}}
DefaultNow == <<2023, 6, 15, 12, 0, 0>>

\* now + timedelta(days=n)
PlusDays(now, n) ==
    LET d == FromOrdinal(ToOrdinal(now) + n)
    IN  <<d[1], d[2], d[3], now[4], now[5], now[6]>>

\* strftime("%Y-%m-%d %H:%M:%S")
StrftimeSeconds(t) ==
    Strftime(t) \o " " \o Pad2(t[4]) \o ":" \o Pad2(t[5]) \o ":" \o Pad2(t[6])

\* lines 63-92: the campaign of the operation
CampaignToCreateFixedBudget(campaign_budget_resource_name, now) ==
    [campaign_budget |-> "customers/1/campaignBudgets/1",
     start_date_time |-> StrftimeSeconds(PlusDays(now, 1)),
     end_date_time |-> StrftimeSeconds(PlusDays(now, 31))]

CampaignToCreate(campaign_budget_resource_name, now) ==
    [campaign_budget |-> campaign_budget_resource_name,
     start_date_time |-> StrftimeSeconds(PlusDays(now, 1)),
     end_date_time |-> StrftimeSeconds(PlusDays(now, 31))]

\* lines 49-60: the budget is added; _handle_google_ads_exception (lines
\* 108-123) prints the diagnostic and exits.
AddCampaignBudget(o) ==
    /\ script = "add_campaign_with_date_times"
    /\ sPc = "called"
    /\ LET end == IF o.ok
                  THEN Returned(<< <<"Created campaign budget with resource name:",
                                     o.result>> >>)
                  ELSE HandleGoogleAdsException(o.ex)
       IN  /\ requests' = Append(requests,
                                 Request("mutate_campaign_budgets", "Interplanetary Budget",
                                         IF o.ok THEN "ok" ELSE "failed", o.result, o.ex))
           /\ stdout' = stdout \o end.lines
           /\ exit_code' = end.exit
           /\ uncaught' = end.uncaught
           /\ sPc' = IF o.ok THEN "budget_created" ELSE Position(end)
    /\ UNCHANGED <<script, args, response, all_rows, saved_csv, campaign>>
    /\ UNCHANGED fetchVars
    /\ UNCHANGED queryOnlyVars

\* lines 62-105: the campaign is built and added.
AddCampaign(o) ==
    /\ script = "add_campaign_with_date_times"
    /\ sPc = "budget_created"
    /\ campaign' = CampaignToCreate(requests[1].result, args.now)
    /\ LET end == IF o.ok
                  THEN Returned(<< <<"Created campaign with resource name:", o.result>>,
                                   <<"Start date time:", campaign'.start_date_time>>,
                                   <<"End date time:", campaign'.end_date_time>> >>)
                  ELSE HandleGoogleAdsException(o.ex)
       IN  /\ requests' = Append(requests,
                                 Request("mutate_campaigns", campaign'.campaign_budget,
                                         IF o.ok THEN "ok" ELSE "failed", o.result, o.ex))
           /\ stdout' = stdout \o end.lines
           /\ exit_code' = end.exit
           /\ uncaught' = end.uncaught
           /\ sPc' = Position(end)
    /\ UNCHANGED <<script, args, response, all_rows, saved_csv>>
    /\ UNCHANGED fetchVars
    /\ UNCHANGED queryOnlyVars

(***************************************************************************)
(* remove_automatically_created_assets.py                                  *)
(***************************************************************************)
\* Names of AssetFieldTypeEnum.AssetFieldType, and the field_type arguments.
AssetFieldType ==
    {"UNSPECIFIED", "UNKNOWN", "HEADLINE", "DESCRIPTION", "MANDATORY_AD_TEXT",
     "MARKETING_IMAGE"}
FieldTypes == {"HEADLINE", "headline", "Description", "UNKNOWN", "INVALID_TYPE", ""}

\* field_type.upper()
Upper(text) ==
    CASE text = "headline" -> "HEADLINE"
      [] text = "Description" -> "DESCRIPTION"
      [] OTHER -> text

\* line 55, getattr(AssetFieldTypeEnum.AssetFieldType, field_type.upper()):
\* <<the member>>, or <<>> where it raises AttributeError
FieldTypeEnumAnyName(field_type) == <<Upper(field_type)>>

FieldTypeEnum(field_type) ==
    IF Upper(field_type) \in AssetFieldType THEN <<Upper(field_type)>> ELSE <<>>

\* main (lines 39-90)
RemoveAutomaticallyCreatedAssets(o) ==
    /\ script = "remove_automatically_created_assets"
    /\ sPc = "called"
    /\ LET field_type_enum == FieldTypeEnum(args.field_type)
           end == IF field_type_enum = <<>>
                  THEN Exited(<< <<"Error: Invalid field type", args.field_type>> >>)
                  ELSE IF o.ok
                  THEN Returned(<< <<"Removed", "1", "automatically created assets.">> >>)
                  ELSE HandleGoogleAdsException(o.ex)
       IN  /\ requests' = IF field_type_enum = <<>> THEN requests
                          ELSE Append(requests,
                                      Request("remove_campaign_automatically_created_asset",
                                              field_type_enum[1],
                                              IF o.ok THEN "ok" ELSE "failed", o.result, o.ex))
           /\ stdout' = stdout \o end.lines
           /\ exit_code' = end.exit
           /\ uncaught' = end.uncaught
           /\ sPc' = Position(end)
    /\ UNCHANGED <<script, args, response, all_rows, saved_csv, campaign>>
    /\ UNCHANGED fetchVars
    /\ UNCHANGED queryOnlyVars

(***************************************************************************)
(* conversion_reports.py: main with the report types other than            *)
(* "performance".                                                          *)
(***************************************************************************)
ConversionActionHeaders ==
    <<"ID", "Name", "Status", "Type", "Category", "Owner",
      "Include in Conversions Metric", "Click-Through Lookback Window",
      "View-Through Lookback Window", "Attribution Model", "Data-Driven Model Status">>

\* main (lines 375-394) with a report type it does not know.
ConversionMainRejects ==
    /\ script = "conversion_reports"
    /\ sPc = "called"
    /\ args.report_type \notin {"actions", "performance"}
    /\ stdout' = Append(stdout, <<"Unknown report type:", args.report_type>>)
    /\ exit_code' = <<1>>
    /\ sPc' = "exited"
    /\ UNCHANGED <<script, args, requests, response, all_rows, saved_csv, campaign,
                   uncaught>>
    /\ UNCHANGED fetchVars
    /\ UNCHANGED queryOnlyVars

\* main with report_type "actions", get_conversion_actions_report (lines
\* 157-197) and _process_and_output_results with format "csv" (lines 114-116
\* and 138-144): no rows, no file.
GetConversionActionsReport(s, open_ok) ==
    /\ script = "conversion_reports"
    /\ sPc = "called"
    /\ args.report_type = "actions"
    /\ LET rows == [i \in 1 .. Len(s.rows) |-> RowList(ConversionActionHeaders, s.rows[i])]
           end == IF s.fails # "no" THEN HandleGoogleAdsException(s.ex)
                  ELSE IF rows = <<>> THEN Returned(<<NoDataMessage>>)
                  ELSE IF open_ok THEN Returned(<<WrittenMessage>>)
                  ELSE Raised(<<>>, "OSError")
       IN  /\ requests' = Append(requests,
                                 Request("search_stream", "conversion_action",
                                         IF s.fails = "no" THEN "ok" ELSE "failed", "", s.ex))
           /\ response' = s
           /\ all_rows' = rows
           /\ saved_csv' = IF s.fails = "no" /\ rows # <<>> /\ open_ok
                           THEN <<ConversionActionHeaders>> \o rows ELSE saved_csv
           /\ stdout' = stdout \o end.lines
           /\ exit_code' = end.exit
           /\ uncaught' = end.uncaught
           /\ sPc' = Position(end)
    /\ UNCHANGED <<script, args, campaign>>
    /\ UNCHANGED fetchVars
    /\ UNCHANGED queryOnlyVars

(***************************************************************************)
(* The runs of these scripts.                                              *)
(***************************************************************************)
ScriptCalls ==
    {<<"disapproved_ads_reports", Arguments(rt, out, id, "", DefaultNow)>> :
        rt \in {"all", "single", "weekly"}, out \in {<<>>, <<"">>, <<"out.csv">>},
        id \in {<<>>, <<"">>, <<"111">>}}
    \cup {<<"ai_max_reports", Arguments(rt, <<>>, <<>>, "", DefaultNow)>> :
             rt \in {"campaign_details", "landing_page_matches", "search_terms", "weekly"}}
    \cup {<<"conversion_reports", Arguments(rt, <<"out.csv">>, <<>>, "", DefaultNow)>> :
             rt \in {"actions", "weekly", ""}}
    \cup {<<sc, Arguments("", <<>>, <<>>, "", DefaultNow)>> :
             sc \in {"get_geo_targets", "list_pmax_campaigns", "create_campaign_experiment"}}
    \cup {<<"add_campaign_with_date_times", Arguments("", <<>>, <<>>, "", t)>> : t \in Nows}
    \cup {<<"remove_automatically_created_assets", Arguments("", <<>>, <<>>, ft, DefaultNow)>> :
             ft \in FieldTypes}

ScriptsInit ==
    /\ \E call \in ScriptCalls :
          /\ script = call[1]
          /\ args = call[2]
    /\ sPc = "called"
    /\ requests = <<>>
    /\ response = NoStream
    /\ all_rows = <<>>
    /\ saved_csv \in {<<>>, StaleReport}
    /\ campaign = NoCampaign
    /\ stdout = <<>>
    /\ exit_code = <<>>
    /\ uncaught = <<>>
    \* conversion_reports.main(report_type="performance") is not running
    /\ qPc = "idle"
    /\ start_date = <<>>
    /\ end_date = <<>>
    /\ date_range_preset = <<>>
    /\ today = <<>>
    /\ metrics = <<>>
    /\ filters = <<>>
    /\ order_by = <<>>
    /\ limit = <<>>
    /\ output_format = "console"
    /\ date_range = <<>>
    /\ all_select_fields = <<>>
    /\ query = <<>>
    /\ search_calls = <<>>
    /\ stream = <<>>
    /\ results_data = <<>>
    /\ csvfile = <<>>
    \* the parallel downloader is not running
    /\ customer_ids = <<>>
    /\ mainPc = "idle"
    /\ futures = <<>>
    /\ behaviour = <<>>
    /\ outcome = <<>>
    /\ yielded = {}
    /\ all_results = <<>>
    /\ slotWrites = <<>>
    /\ pool_shutdown = FALSE
    /\ printed = <<>>

ScriptsNext ==
    \/ DisapprovedAdsMainRejects
    \/ \E s \in Streams(AdRows) : \E open_ok \in BOOLEAN : GetAllDisapprovedAds(s, open_ok)
    \/ \E s \in Streams(AdRows) : \E open_ok \in BOOLEAN :
          GetDisapprovedAdsForCampaign(s, open_ok)
    \/ AiMaxMainRejects
    \/ \E s \in Streams(RowSeeds) : \E open_ok \in BOOLEAN : AiMaxReport(s, open_ok)
    \/ \E s \in Streams(PmaxRows) : ListPmaxCampaigns(s)
    \/ \E s \in Streams(CriterionRows) : GeoSearch(s)
    \/ \E l \in Lookups : GeoLookup(l)
    \/ GeoStreamEnds
    \/ \E o \in MutateOutcomes({"customers/1/experiments/7", "customers/1/experiments/8"}) : CreateExperimentResource(o)
    \/ \E o \in MutateOutcomes({"customers/1/campaigns/70"}) : CreateExperimentArms(o)
    \/ \E o \in MutateOutcomes({""}) : ModifyTreatmentCampaign(o)
    \/ \E o \in MutateOutcomes({""}) : ScheduleExperiment(o)
    \/ \E o \in MutateOutcomes({"customers/1/campaignBudgets/1",
                                 "customers/1/campaignBudgets/2"}) : AddCampaignBudget(o)
    \/ \E o \in MutateOutcomes({"customers/1/campaigns/5"}) : AddCampaign(o)
    \/ \E o \in MutateOutcomes({""}) : RemoveAutomaticallyCreatedAssets(o)
    \/ ConversionMainRejects
    \/ \E s \in Streams(RowSeeds) : \E open_ok \in BOOLEAN :
          GetConversionActionsReport(s, open_ok)

SpecFetch == FetchInit /\ [][FetchNext]_vars

\* Pool threads and the main thread keep running, and every fetch ends (the
\* collaborator's streams are finite): no enabled step is postponed forever.
FairSpecFetch == SpecFetch /\ WF_vars(FetchNext)

SpecQuery == QueryInit /\ [][QueryNext]_vars

SpecDates == DatesInit /\ [][QueryNext]_vars

SpecRender == RenderInit /\ [][QueryNext]_vars

SpecScripts == ScriptsInit /\ [][ScriptsNext]_vars

(***************************************************************************)
(* Claims about the concurrent fetch.                                      *)
(***************************************************************************)
MainTerminated == mainPc \in {"done", "raised"}
Submitted == mainPc # "submit"
FailedWith(kinds) == {t \in Tasks : behaviour[t].fail \in kinds}

\* The rows the stream of task t delivered before it ended or raised.
DeliveredRows(t) ==
    LET batchOf(n) == CHOOSE j \in 1 .. behaviour[t].after :
                          (j * (j - 1)) \div 2 < n /\ n <= (j * (j + 1)) \div 2
        total == (behaviour[t].after * (behaviour[t].after + 1)) \div 2
    IN  [n \in 1 .. total |->
            <<"row", t, batchOf(n), n - ((batchOf(n) * (batchOf(n) - 1)) \div 2)>>]

\* C1: once the pool has joined, if exactly one of the N = 3 x Len(customer_ids)
\* tasks failed, with a GoogleAdsException, then all_results has N entries, the
\* failing task's entry has a non-null exception, and every other task's entry
\* holds exactly the rows its stream delivered, with exception None.
C1_AllResultsHasOneEntryPerTask ==
    (/\ mainPc \in {"print", "done"}
     /\ Cardinality(FailedWith({"gax"})) = 1
     /\ FailedWith({"svc", "other"}) = {})
    => /\ Cardinality(DOMAIN all_results) = NumTasks(customer_ids)
       /\ \A t \in Tasks :
            LET entry == all_results[Label(customer_ids, t)]
            IN  IF behaviour[t].fail = "gax"
                THEN entry.exception # NoneVal
                ELSE entry = [rows |-> DeliveredRows(t), exception |-> NoneVal]

\* C2: fetch_report_threaded returns (report_name, rows, exception): on success
\* rows are all delivered rows in delivery order and exception is None; on a
\* GoogleAdsException at any point of opening or consuming the stream, also
\* after batches were delivered, rows is the empty list and exception the error.
C2_RowsEmptyOnFailure ==
    Submitted =>
        \A t \in Tasks :
            /\ behaviour[t].fail = "none" =>
                   outcome[t].ret =
                       <<Label(customer_ids, t), DeliveredRows(t), NoneVal>>
            /\ behaviour[t].fail = "gax" =>
                   outcome[t].ret =
                       <<Label(customer_ids, t), <<>>, GoogleAdsException(t)>>

C4_ExactlyOneSlotAssignmentPerTask ==
    Submitted =>
        /\ MainTerminated =>
              \A t \in Tasks : futures[t] = "finished" => Len(slotWrites[t]) = 1
        /\ \A t \in Tasks : \A i \in 1 .. Len(slotWrites[t]) :
              slotWrites[t][i].thread = "MainThread"
        /\ mainPc \in {"print", "done"} => (CanLeavePool /\ pool_shutdown)

\* C4 as amended: all_results receives at most one slot assignment per task,
\* made by the main thread after the task has finished and into the slot of
\* the task's own label; when all_results is read (the printing loop) every
\* submitted task has finished, the pool has joined and every task has had
\* exactly one assignment.  (A run in which future.result() raises assigns no
\* slot to the tasks not collected by then, and reads nothing.)
C4_SlotAssignments ==
    Submitted =>
        /\ \A t \in Tasks :
              /\ Len(slotWrites[t]) <= 1
              /\ \A i \in 1 .. Len(slotWrites[t]) :
                    /\ slotWrites[t][i].thread = "MainThread"
                    /\ slotWrites[t][i].label = Label(customer_ids, t)
                    /\ futures[t] = "finished"
        /\ mainPc \in {"print", "done"} =>
              /\ CanLeavePool
              /\ pool_shutdown
              /\ \A t \in Tasks : Len(slotWrites[t]) = 1
        /\ printed # <<>> => mainPc = "done"

C4_Witness ==
    /\ mainPc = "done"
    /\ printed # <<>>
    /\ Cardinality(Tasks) > MAX_WORKERS
    /\ \A t \in Tasks : Len(slotWrites[t]) = 1

\* C5 as stated: no more than MAX_WORKERS fetches are ever in progress; when
\* main has ended every submitted task has run to completion or failure; and
\* main ends having printed one results section per collected label.
C5_MainEndsAfterPrinting ==
    Submitted =>
        /\ Cardinality(Running) <= MAX_WORKERS
        /\ MainTerminated =>
              /\ \A t \in Tasks : futures[t] = "finished"
              /\ mainPc = "done"
              /\ DOMAIN printed = DOMAIN all_results
              /\ DOMAIN printed = {Label(customer_ids, t) : t \in Tasks}

C5_Safe ==
    Submitted =>
        /\ Cardinality(Running) <= MAX_WORKERS
        /\ \A t \in Tasks :
              (futures[t] = "finished") = (behaviour[t] # NoBehaviour)
        /\ MainTerminated => \A t \in Tasks : futures[t] = "finished"
        /\ mainPc = "done" =>
              /\ DOMAIN printed = DOMAIN all_results
              /\ DOMAIN printed = {Label(customer_ids, t) : t \in Tasks}
        /\ mainPc = "raised" =>
              /\ printed = <<>>
              /\ FailedWith({"svc", "other"}) # {}

\* C5 as amended: every submitted task eventually runs to completion or
\* failure (none is cancelled or left queued, also with more tasks than
\* workers); never more than MAX_WORKERS fetches are in progress; main always
\* terminates, and it does so after printing one results section per collected
\* label unless a fetch raised something other than a GoogleAdsException from
\* its stream, in which case main ends by that exception with nothing printed.
C5_TasksCompleteAndMainTerminates ==
    /\ []C5_Safe
    /\ <>[](Submitted /\ \A t \in Tasks : futures[t] = "finished")
    /\ <>[]MainTerminated

C5_Witness ==
    /\ Submitted
    /\ Cardinality(Running) = MAX_WORKERS
    /\ \E t \in Tasks : futures[t] = "queued"

\* C6 as stated: each task that ran invoked search_stream exactly once, and
\* when main has ended the error of every failed task is recorded once in the
\* results.
C6_ExactlyOneCallAndErrorRecorded ==
    Submitted =>
        /\ \A t \in Tasks : futures[t] = "finished" => outcome[t].calls = 1
        /\ MainTerminated =>
              \A t \in FailedWith({"svc", "gax", "other"}) :
                  /\ Len(slotWrites[t]) = 1
                  /\ slotWrites[t][1].entry.exception # NoneVal

\* C6 as amended: each task invokes search_stream at most once: exactly once
\* unless obtaining the service raised, in which case never.  No task runs
\* again after it failed.  A GoogleAdsException is recorded at most once, and
\* exactly once when the collection loop has run to its end; an exception of
\* another kind is recorded nowhere.
C6_NoRetry ==
    Submitted =>
        /\ \A t \in Tasks :
              /\ futures[t] = "finished" =>
                    outcome[t].calls = IF behaviour[t].fail = "svc" THEN 0 ELSE 1
              /\ futures[t] # "finished" => outcome[t] = NoOutcome
              /\ Len(slotWrites[t]) <= 1
        /\ \A t \in FailedWith({"svc", "other"}) : slotWrites[t] = <<>>
        /\ mainPc \in {"print", "done"} =>
              \A t \in FailedWith({"gax"}) :
                  /\ Len(slotWrites[t]) = 1
                  /\ slotWrites[t][1].entry.exception = GoogleAdsException(t)

C6_Witness ==
    /\ mainPc = "done"
    /\ \E t \in FailedWith({"gax"}) :
          outcome[t].calls = 1 /\ Len(slotWrites[t]) = 1

(***************************************************************************)
(* Claims about the query built by get_conversion_performance_report and   *)
(* about the columns it emits.                                             *)
(***************************************************************************)
QueryBuilt == query # <<>>
Positions(q, tok) == {i \in 1 .. Len(q) : q[i] = tok}
\* The names between SELECT and FROM, in query order.
SelectList(q) ==
    LET from == CHOOSE i \in Positions(q, Kw("FROM")) : TRUE
        names == SelectSeq(SubSeq(q, 2, from - 1), LAMBDA tok : tok[1] = "name")
    IN  [i \in 1 .. Len(names) |-> names[i][2]]
\* The where clauses of the query, in query order.
WhereList(q) == SelectSeq(q, LAMBDA tok : Len(tok) >= 3)

\* C7: the built query contains exactly one FROM clause; its target is
\* customer if and only if segments.conversion_action_name is among the
\* metrics or some filter token starts with conversion_action_name=, and
\* campaign otherwise.
C7_OneFromClauseWithSwitchedTarget ==
    QueryBuilt =>
        /\ Cardinality(Positions(query, Kw("FROM"))) = 1
        /\ \A i \in Positions(query, Kw("FROM")) :
              /\ i < Len(query)
              /\ query[i + 1] =
                    Name(IF \/ "segments.conversion_action_name" \in Range(metrics)
                            \/ \E f \in Range(filters) :
                                  Len(f) >= 2 /\ f[1] = "conversion_action_name"
                         THEN "customer"
                         ELSE "campaign")

C7_Witness ==
    /\ qPc = "built"
    /\ "segments.conversion_action_name" \notin Range(metrics)
    /\ \E f \in Range(filters) : f[1] = "conversion_action_name"
    /\ \E i \in Positions(query, Kw("FROM")) : query[i + 1] = Name("customer")

\* The list without its repetitions, first occurrences kept in order.
RECURSIVE Dedup(_, _)
Dedup(seq, i) ==
    IF i > Len(seq) THEN <<>>
    ELSE IF \E j \in 1 .. i - 1 : seq[j] = seq[i] THEN Dedup(seq, i + 1)
    ELSE <<seq[i]>> \o Dedup(seq, i + 1)

\* C8: the SELECT list holds each requested field exactly once and in stable
\* input order: the forced fields first, then the metrics in the order the
\* caller gave them.
C8_SelectListInInputOrder ==
    QueryBuilt =>
        SelectList(query) =
            Dedup(SelectFields(metrics, filters) \o MetricFields(metrics, 1), 1)

\* The columns a report can have, in the order the flattener tests for them.
ColumnOrder ==
    << "Date", "Conversion Action Name", "Campaign ID", "Campaign Name",
       "Conversions", "All Conversions", "Conversions Value",
       "All Conversions Value", "Clicks", "Impressions" >>

\* Reading a CSV text back (csv.reader, default dialect): its records, each
\* the sequence of its fields.
InQuotes(text, from, i) ==
    Cardinality({j \in from .. i - 1 : text[j] = "\""}) % 2 = 1

\* The first position at or after from, outside quotes, that holds one of the
\* characters of stops (one past the end of the text if there is none).
NextStop(text, from, stops) ==
    LET found == {i \in from .. Len(text) :
                      text[i] \in stops /\ ~InQuotes(text, from, i)}
    IN  IF found = {} THEN Len(text) + 1
        ELSE CHOOSE i \in found : \A j \in found : i <= j

RECURSIVE Undouble(_, _)
Undouble(text, i) ==
    IF i > Len(text) THEN <<>>
    ELSE IF text[i] = "\"" THEN <<"\"">> \o Undouble(text, i + 2)
    ELSE <<text[i]>> \o Undouble(text, i + 1)

Unquote(raw) ==
    IF raw # <<>> /\ raw[1] = "\"" THEN Undouble(SubSeq(raw, 2, Len(raw) - 1), 1)
    ELSE raw

RECURSIVE ReadFields(_, _)
ReadFields(line, from) ==
    LET stop == NextStop(line, from, {","})
        field == Unquote(SubSeq(line, from, stop - 1))
    IN  IF stop > Len(line) THEN <<field>>
        ELSE <<field>> \o ReadFields(line, stop + 1)

RECURSIVE ReadRecords(_, _)
ReadRecords(text, from) ==
    IF from > Len(text) THEN <<>>
    ELSE LET stop == NextStop(text, from, {"\r", "\n"})
             after == IF stop < Len(text) /\ text[stop] = "\r" /\ text[stop + 1] = "\n"
                      THEN stop + 2 ELSE stop + 1
         IN  <<ReadFields(SubSeq(text, from, stop - 1), 1)>> \o ReadRecords(text, after)

ReadCsv(text) == ReadRecords(text, 1)

\* The cells of a printed line: the texts between the column separators,
\* without their padding.
RECURSIVE Rstrip(_)
Rstrip(text) ==
    IF text # <<>> /\ text[Len(text)] = " " THEN Rstrip(SubSeq(text, 1, Len(text) - 1))
    ELSE text

RECURSIVE SplitCells(_, _, _)
SplitCells(line, i, cell) ==
    IF i > Len(line) THEN <<Rstrip(cell)>>
    ELSE IF i + 2 <= Len(line) /\ SubSeq(line, i, i + 2) = <<" ", "|", " ">>
    THEN <<Rstrip(cell)>> \o SplitCells(line, i + 3, <<>>)
    ELSE SplitCells(line, i + 1, Append(cell, line[i]))

\* The lines of the table printed last: header line, dashes, one per row.
TableLines == SubSeq(stdout, Len(stdout) - Len(results_data) - 1, Len(stdout))

HeaderOfText(text) ==
    CHOOSE h \in Range(ColumnOrder) \cup {"?"} :
        IF \E g \in Range(ColumnOrder) : Chars(g) = text
        THEN h # "?" /\ Chars(h) = text
        ELSE h = "?"

\* The header cells emitted: the console header line or the CSV header row.
EmittedHeaders ==
    LET cells == IF output_format = "csv" THEN ReadCsv(csvfile)[1]
                 ELSE SplitCells(TableLines[1], 1, <<>>)
    IN  [k \in 1 .. Len(cells) |-> HeaderOfText(cells[k])]

ReportEmitted == qPc = "returned" /\ results_data # <<>>

\* C9 as stated: the emitted column headers are the display names of the
\* query's field list, in the order of that field list.
C9_HeadersFollowQueryFieldList ==
    ReportEmitted =>
        EmittedHeaders =
            [i \in 1 .. Len(all_select_fields) |-> DisplayName(all_select_fields[i])]

\* C9 as amended: when a performance report has rows, the emitted column
\* headers (console header line, CSV header row) are the display names of
\* exactly the fields of the query's field list, each once, always in the
\* fixed order Date, Conversion Action Name, Campaign ID, Campaign Name,
\* Conversions, All Conversions, Conversions Value, All Conversions Value,
\* Clicks, Impressions, whatever the order of the caller's metrics and of the
\* query's field list; every row has these columns in this order.
C9_HeadersInFixedColumnOrder ==
    ReportEmitted =>
        LET emitted == EmittedHeaders
            fields == Range(SelectList(query))
        IN  /\ emitted =
                  SelectSeq(ColumnOrder,
                            LAMBDA h : \E f \in fields : DisplayName(f) = h)
            /\ \A i \in 1 .. Len(results_data) :
                  /\ Keys(results_data[i]) = emitted
                  /\ \A k \in 1 .. Len(results_data[i]) :
                        \E f \in fields :
                            /\ DisplayName(f) = emitted[k]
                            /\ results_data[i][k][2] = RowValue(f, stream[i])

C9_Witness ==
    /\ ReportEmitted
    /\ Len(results_data) = 2
    /\ metrics = <<"clicks", "conversions">>
    /\ EmittedHeaders = <<"Date", "Campaign ID", "Campaign Name", "Conversions", "Clicks">>
    /\ SelectList(query) # <<"segments.date", "campaign.id", "campaign.name",
                             "metrics.conversions", "metrics.clicks">>

\* The text pieces a filter token of a recognized shape puts in its clause.
RecognizedPrefixes ==
    {"conversion_action_name", "min_conversions", "campaign_id", "campaign_name_like"}
IsRecognized(f) == Len(f) >= 2 /\ f[1] \in RecognizedPrefixes
ExpectedClause(f) ==
    CASE f[1] = "conversion_action_name" ->
             <<"segments.conversion_action_name = '", f[2], "'">>
      [] f[1] = "min_conversions" ->
             <<"metrics.conversions > ", IF f[2] = "5" THEN "5.0" ELSE "?", "">>
      [] f[1] = "campaign_id" -> <<"campaign.id = ", f[2], "">>
      [] f[1] = "campaign_name_like" -> <<"campaign.name LIKE '%", f[2], "%'">>

\* C10: the WHERE clause of a built query holds, after the date condition,
\* one condition per filter token of a recognized shape, in token order, and
\* no text of any other token; a token of no recognized shape never causes an
\* error: once the date range is resolved, the build fails only on a
\* min_conversions= token whose value is not a number.
C10_OneConditionPerRecognizedFilter ==
    /\ QueryBuilt =>
          LET recognized == SelectSeq(filters, IsRecognized)
              conditions == WhereList(query)
          IN  /\ Len(conditions) = 1 + Len(recognized)
              /\ \A i \in 1 .. Len(recognized) :
                    conditions[i + 1] = ExpectedClause(recognized[i])
              /\ \A f \in Range(filters) : ~IsRecognized(f) =>
                    \A c \in Range(conditions) : Range(c) \cap Range(f) = {}
    /\ (qPc = "exited" /\ search_calls = <<>> /\ date_range # <<>>) =>
          \E f \in Range(filters) : f = <<"min_conversions", "abc">>
    /\ (date_range # <<>> /\ \A f \in Range(filters) : ~IsRecognized(f)) =>
          (QueryBuilt /\ (exit_code # <<>> => search_calls # <<>>))

C10_Witness ==
    /\ qPc = "built"
    /\ filters = << <<"min_conversions", "5">>, <<"unrecognized_token", "x">> >>
    /\ Len(WhereList(query)) = 2


Min(S) == CHOOSE x \in S : \A y \in S : x <= y

\* C11: every built query has one WHERE clause, directly after the FROM
\* target; its first condition is segments.date BETWEEN '<start>' AND '<end>'
\* with the date range _calculate_date_range returned (the explicit dates,
\* zero-padded); the conditions of all recognized filters follow it, every two
\* neighbouring conditions joined by AND; and the clauses come in the order
\* SELECT, FROM, WHERE, ORDER BY, LIMIT, with LIMIT last.
C11_DateConditionAndClauseOrder ==
    QueryBuilt =>
        LET q == query
            from == Positions(q, Kw("FROM"))
            where == Positions(q, Kw("WHERE"))
            order == Positions(q, Kw("ORDER BY"))
            lim == Positions(q, Kw("LIMIT"))
            w == Min(where)
            stop == Min(order \cup lim \cup {Len(q) + 1})
        IN  /\ Positions(q, Kw("SELECT")) = {1}
            /\ Cardinality(from) = 1 /\ Cardinality(where) = 1
            /\ Cardinality(order) <= 1 /\ Cardinality(lim) <= 1
            /\ w = Min(from) + 2
            /\ \A o \in order : w < o /\ \A l \in lim : o < l
            /\ \A l \in lim : w < l /\ l = Len(q) - 1
            /\ date_range = <<"2025-01-05", "2025-01-31">>
            /\ q[w + 1] = <<"segments.date BETWEEN '", date_range[1],
                            "' AND '", date_range[2], "'">>
            /\ \A i \in w + 1 .. stop - 1 :
                  IF (i - w) % 2 = 1 THEN Len(q[i]) >= 3 ELSE q[i] = Kw("AND")
            /\ (stop - w) % 2 = 0
            /\ \A f \in Range(filters) : IsRecognized(f) =>
                  \E i \in w + 2 .. stop - 1 : q[i] = ExpectedClause(f)

C11_Witness ==
    /\ qPc = "built"
    /\ start_date = <<"2025-1-5">>
    /\ filters = << <<"campaign_id", "123">>, <<"min_conversions", "5">> >>
    /\ order_by = <<"clicks">> /\ limit = <<5>>
    /\ Len(WhereList(query)) = 3
    /\ Cardinality(Positions(query, Kw("AND"))) = 2

\* C12: when order_by is given the built query has exactly one ORDER BY
\* clause, it is DESC, and its field is metrics.<name> for the names
\* conversions, all_conversions, conversions_value, all_conversions_value,
\* clicks, impressions and the given name verbatim otherwise; when order_by is
\* absent the query has no ORDER BY clause.
C12_OrderByDescending ==
    QueryBuilt =>
        LET order == Positions(query, Kw("ORDER BY"))
            desc == Positions(query, Kw("DESC"))
        IN  IF order_by # <<>>
            THEN /\ Cardinality(order) = 1
                 /\ \A o \in order :
                       /\ o + 2 <= Len(query)
                       /\ desc = {o + 2}
                       /\ query[o + 1] =
                             IF order_by[1] \in
                                    {"conversions", "all_conversions",
                                     "conversions_value", "all_conversions_value",
                                     "clicks", "impressions"}
                             THEN <<"metrics.", order_by[1]>>
                             ELSE <<"", order_by[1]>>
            ELSE order = {} /\ desc = {}

C12_Witness ==
    /\ qPc = "built"
    /\ order_by = <<"clicks">>
    /\ \E o \in Positions(query, Kw("ORDER BY")) :
          query[o + 1] = <<"metrics.", "clicks">> /\ query[o + 2] = Kw("DESC")

\* C13: the built query ends with a LIMIT <n> clause if and only if limit is
\* present and positive; an absent, zero or negative limit gives no LIMIT
\* clause.
C13_LimitOnlyWhenPositive ==
    QueryBuilt =>
        LET lim == Positions(query, Kw("LIMIT"))
        IN  IF limit # <<>> /\ limit[1] > 0
            THEN /\ lim = {Len(query) - 1}
                 /\ query[Len(query)] = Name(DecimalText(limit[1]))
            ELSE lim = {}


(***************************************************************************)
(* Claims about the date range.                                            *)
(***************************************************************************)
DateRangeResolved == qPc # "called"
Supplied(arg) == arg \notin {<<>>, <<"">>}
\* The explicit date texts strptime accepts, and what they read zero-padded.
Parses(arg) == arg[1] \in {"2025-01-01", "2025-01-31", "2025-1-5", "2024-02-29"}
ZeroPadded(text) == IF text = "2025-1-5" THEN "2025-01-05" ELSE text
\* The run ended by the print-diagnostic-and-exit-1 path before any query.
FailedWithDiagnostic(message) ==
    /\ qPc = "exited"
    /\ exit_code = <<1>>
    /\ stdout = <<message>>
    /\ search_calls = <<>>
    /\ date_range = <<>>

\* C14 as stated: the resolution fails (diagnostic, exit code 1, no query)
\* if neither both explicit dates nor a recognized preset is supplied, or if
\* an explicit date does not parse; when both explicit dates parse and no
\* preset is given it returns them unchanged.
C14_FailsOnUnparsableDateElseUnchanged ==
    DateRangeResolved =>
        /\ (~(Supplied(start_date) /\ Supplied(end_date))
              /\ date_range_preset \notin PresetTexts) =>
              \E m \in {DateRangeMessage, <<"Error:", "ValueError">>} :
                  FailedWithDiagnostic(m)
        /\ (\E arg \in {start_date, end_date} : Supplied(arg) /\ ~Parses(arg)) =>
              \E m \in {DateRangeMessage, <<"Error:", "ValueError">>} :
                  FailedWithDiagnostic(m)
        /\ (Supplied(start_date) /\ Supplied(end_date) /\ ~Supplied(date_range_preset)
              /\ Parses(start_date) /\ Parses(end_date)) =>
              date_range = <<start_date[1], end_date[1]>>

\* C14 as amended: with no preset, the resolution fails (diagnostic, exit
\* code 1, no query sent) if an explicit date is missing or does not parse,
\* and otherwise returns the two explicit dates zero-padded to YYYY-MM-DD
\* (unchanged when they are written that way); a preset that is not
\* recognized fails whatever the explicit dates; a recognized preset never
\* fails and makes the explicit dates unread, parsable or not.
C14_DateRangeResolution ==
    DateRangeResolved =>
        IF Supplied(date_range_preset)
        THEN IF date_range_preset \in PresetTexts
             THEN date_range # <<>>
             ELSE FailedWithDiagnostic(DateRangeMessage)
        ELSE IF ~(Supplied(start_date) /\ Supplied(end_date))
        THEN FailedWithDiagnostic(DateRangeMessage)
        ELSE IF ~(Parses(start_date) /\ Parses(end_date))
        THEN FailedWithDiagnostic(<<"Error:", "ValueError">>)
        ELSE date_range = <<ZeroPadded(start_date[1]), ZeroPadded(end_date[1])>>

C14_Witness ==
    /\ start_date = <<"2025-01-01">>
    /\ end_date = <<"01/31/2025">>
    /\ date_range_preset = <<>>
    /\ FailedWithDiagnostic(<<"Error:", "ValueError">>)

\* The calendar, month by month.
MonthLengths(y) ==
    <<31, IF y % 4 = 0 /\ (y % 100 # 0 \/ y % 400 = 0) THEN 29 ELSE 28,
      31, 30, 31, 30, 31, 31, 30, 31, 30, 31>>
\* The last day of the month before the month of d.
EndOfPreviousMonth(d) ==
    IF d[2] > 1 THEN <<d[1], d[2] - 1, MonthLengths(d[1])[d[2] - 1]>>
    ELSE <<d[1] - 1, 12, 31>>
\* The day n days before d, found month by month.
RECURSIVE DaysBack(_, _)
DaysBack(d, n) ==
    IF n < d[3] THEN <<d[1], d[2], d[3] - n>>
    ELSE DaysBack(EndOfPreviousMonth(d), n - d[3])
TwoDigits(n) ==
    <<"00", "01", "02", "03", "04", "05", "06", "07", "08", "09", "10", "11",
      "12", "13", "14", "15", "16", "17", "18", "19", "20", "21", "22", "23",
      "24", "25", "26", "27", "28", "29", "30", "31">>[n + 1]
Iso(d) == ToString(d[1]) \o "-" \o TwoDigits(d[2]) \o "-" \o TwoDigits(d[3])
Before(d, e) ==
    \/ d[1] < e[1]
    \/ d[1] = e[1] /\ d[2] < e[2]
    \/ d[1] = e[1] /\ d[2] = e[2] /\ d[3] <= e[3]
PreviousMonth(d) == IF d[2] = 1 THEN <<d[1] - 1, 12>> ELSE <<d[1], d[2] - 1>>
PresetDays ==
    [p \in PresetTexts \ {<<"LAST_MONTH">>} |->
        CASE p = <<"LAST_7_DAYS">> -> 7
          [] p = <<"LAST_10_DAYS">> -> 10
          [] p = <<"LAST_30_DAYS">> -> 30
          [] p = <<"LAST_32_DAYS">> -> 32
          [] p = <<"LAST_6_MONTHS">> -> 180
          [] p = <<"LAST_YEAR">> -> 365]

\* C15: for every supported preset and every current date the returned range
\* has start <= end; for LAST_7_DAYS, LAST_10_DAYS, LAST_30_DAYS and
\* LAST_32_DAYS (and LAST_6_MONTHS, LAST_YEAR with 180 and 365 days) end is
\* today and start is today minus that many days; for LAST_MONTH start is the
\* first and end the last day of the previous calendar month.
C15_PresetRanges ==
    (qPc = "built" /\ date_range_preset \in PresetTexts) =>
        LET range ==
                IF date_range_preset = <<"LAST_MONTH">>
                THEN LET pm == PreviousMonth(today)
                     IN  << <<pm[1], pm[2], 1>>,
                            <<pm[1], pm[2], MonthLengths(pm[1])[pm[2]]>> >>
                ELSE <<DaysBack(today, PresetDays[date_range_preset]), today>>
        IN  /\ date_range = <<Iso(range[1]), Iso(range[2])>>
            /\ Before(range[1], range[2])
            /\ Before(range[2], today)

C15_Witness ==
    /\ qPc = "built"
    /\ date_range_preset = <<"LAST_MONTH">>
    /\ today = <<2023, 1, 31>>
    /\ date_range = <<"2022-12-01", "2022-12-31">>


(***************************************************************************)
(* Claims about the output of the rows.                                    *)
(***************************************************************************)
\* The stream was consumed to its end and the rows were handed to
\* _process_and_output_results.
RowsRendered == search_calls # <<>> /\ qPc \in {"returned", "raised"}

\* C16: rendering an empty row sequence, in either format, prints the no-data
\* message and nothing else (no header line, no separator line, no data
\* line), and it does so before anything else is attempted: the file is not
\* opened, so nothing can fail.
C16_EmptyRowsPrintOnlyNoData ==
    (RowsRendered /\ stream = <<>>) =>
        /\ qPc = "returned"
        /\ results_data = <<>>
        /\ stdout = <<NoDataMessage>>
        /\ uncaught = <<>> /\ exit_code = <<>>

C16_Witness ==
    /\ RowsRendered /\ stream = <<>>
    /\ output_format = "console"
    /\ stdout = << <<"No data found matching the criteria.">> >>

MaxOf(S) == CHOOSE x \in S : \A y \in S : y <= x
RECURSIVE SumTo(_, _)
SumTo(f, k) == IF k = 0 THEN 0 ELSE f[k] + SumTo(f, k - 1)

\* C17: in console output the width of a column is the larger of the length
\* of its header and the greatest length of str(value) over all rows; the
\* header line and every row line hold, column after column, the text
\* followed by spaces up to that width, neighbouring columns separated by
\* " | "; the second line is dashes only, as long as the header line; and
\* nothing else is printed.
C17_ConsoleColumnsPadded ==
    (RowsRendered /\ output_format = "console" /\ stream # <<>>) =>
        LET headers == Keys(results_data[1])
            n == Len(headers)
            rows == Len(results_data)
            cell(i, k) == IF i = 0 THEN Chars(headers[k])
                          ELSE Str(results_data[i][k][2])
            width == [k \in 1 .. n |-> MaxOf({Len(cell(i, k)) : i \in 0 .. rows})]
            gross == [k \in 1 .. n |-> width[k] + 3]
            line(i) == IF i = 0 THEN stdout[1] ELSE stdout[i + 2]
        IN  /\ Len(stdout) = rows + 2
            /\ \A i \in 0 .. rows :
                  /\ Len(line(i)) = SumTo(gross, n) - 3
                  /\ \A k \in 1 .. n :
                        LET off == SumTo(gross, k - 1)
                            text == cell(i, k)
                        IN  /\ SubSeq(line(i), off + 1, off + Len(text)) = text
                            /\ \A j \in off + Len(text) + 1 .. off + width[k] :
                                  line(i)[j] = " "
                            /\ k < n =>
                                  SubSeq(line(i), off + width[k] + 1, off + width[k] + 3)
                                      = <<" ", "|", " ">>
            /\ Len(stdout[2]) = Len(stdout[1])
            /\ \A j \in 1 .. Len(stdout[2]) : stdout[2][j] = "-"

C17_Witness ==
    /\ RowsRendered /\ output_format = "console"
    /\ stream = <<1, 2>>
    /\ metrics = <<"clicks">>
    /\ Len(stdout) = 4
    /\ Len(stdout[1]) = 10 + 3 + 11 + 3 + 16 + 3 + 6


\* The source field of a column, and the value the collaborator delivered
\* for column k of the i-th row of the stream.
FieldOf(header) == (CHOOSE c \in Range(ColumnChain) : c[2] = header)[1]
CsvRendered == RowsRendered /\ output_format = "csv" /\ qPc = "returned"

\* C18 as stated: re-reading the CSV written for the rows of a stream yields
\* the header col1,...,colN as its first record and then, row by row in
\* delivery order and column by column in header order, the same values as
\* the original rows.
C18_RoundTripSameValues ==
    CsvRendered =>
        LET records == ReadCsv(csvfile)
            headers == Keys(RowData(all_select_fields, 1))
        IN  /\ Len(records) = 1 + Len(stream)
            /\ records[1] = [k \in 1 .. Len(headers) |-> Chars(headers[k])]
            /\ \A i \in 1 .. Len(stream) :
                  /\ Len(records[i + 1]) = Len(headers)
                  /\ \A k \in 1 .. Len(headers) :
                        StrVal(records[i + 1][k])
                            = RowValue(FieldOf(headers[k]), stream[i])

\* C18 as amended: for a stream that delivers at least one row, re-reading
\* the CSV yields the header col1,...,colN as its first record and then one
\* record per row, in delivery order (no row moved, dropped or merged), whose
\* fields are, column by column in header order, the texts str(value) of the
\* original values: equal to the original value where it is a string, its
\* decimal text where it is a number.  The file starts with the column names
\* joined by commas and a line terminator.  For a stream without rows no
\* file is written.
C18_RoundTripTexts ==
    CsvRendered =>
        LET records == ReadCsv(csvfile)
            headers == Keys(RowData(all_select_fields, 1))
            head == JoinTexts([k \in 1 .. Len(headers) |-> Chars(headers[k])], <<",">>, 1)
                        \o <<"\r", "\n">>
        IN  IF stream = <<>> THEN csvfile \in {<<>>, StaleFile}
            ELSE /\ Len(records) = 1 + Len(stream)
                 /\ records[1] = [k \in 1 .. Len(headers) |-> Chars(headers[k])]
                 /\ SubSeq(csvfile, 1, Len(head)) = head
                 /\ \A i \in 1 .. Len(stream) :
                       /\ Len(records[i + 1]) = Len(headers)
                       /\ \A k \in 1 .. Len(headers) :
                             LET v == RowValue(FieldOf(headers[k]), stream[i])
                             IN  /\ records[i + 1][k] = Str(v)
                                 /\ v.t = "str" => StrVal(records[i + 1][k]) = v

C18_Witness ==
    /\ CsvRendered
    /\ stream = <<2, 1>>
    /\ metrics = <<"segments.conversion_action_name", "conversions">>
    /\ ReadCsv(csvfile)[2] =
          << <<"2", "0", "2", "5", "-", "0", "1", "-", "0", "2">>,
             <<"a", ",", "\"", "b", "\"">>,
             <<"5", ".", "0">> >>

\* C19: after a render with format = csv has returned, the file holds exactly
\* the header row followed by one record per row of this call, for every row
\* sequence including the empty one; content that was at the path before is
\* gone.
C19_FileHoldsExactlyThisCall ==
    CsvRendered =>
        LET records == ReadCsv(csvfile)
            headers == Keys(RowData(all_select_fields, 1))
        IN  /\ Len(records) = 1 + Len(stream)
            /\ records[1] = [k \in 1 .. Len(headers) |-> Chars(headers[k])]

\* C20: when the CSV destination cannot be opened, the error of open() leaves
\* _process_and_output_results and main uncaught: main neither prints a
\* diagnostic nor calls sys.exit(1), no confirmation is printed and the file
\* is as it was; a render with format = csv of at least one row ends either
\* so or with the file written and the confirmation printed.
C20_OpenErrorPropagates ==
    /\ (uncaught # <<>> \/ qPc = "raised") =>
          /\ qPc = "raised"
          /\ uncaught = <<"OSError">>
          /\ output_format = "csv"
          /\ exit_code = <<>>
          /\ stdout = <<>>
          /\ csvfile \in {<<>>, StaleFile}
    /\ (RowsRendered /\ output_format = "csv" /\ stream # <<>> /\ qPc = "returned") =>
          /\ stdout = <<WrittenMessage>>
          /\ csvfile \notin {<<>>, StaleFile}

C20_Witness ==
    /\ qPc = "raised"
    /\ uncaught = <<"OSError">>
    /\ stream = <<1>>
    /\ csvfile = StaleFile
    /\ stdout = <<>>
(***************************************************************************)
(* Claims about the arguments of conversion_reports that are not usable.   *)
(***************************************************************************)
\* The range a recognized preset stands for on the day d.
ExpectedPresetRange(p, d) ==
    IF p = <<"LAST_MONTH">>
    THEN LET pm == PreviousMonth(d)
         IN  <<Iso(<<pm[1], pm[2], 1>>), Iso(<<pm[1], pm[2], MonthLengths(pm[1])[pm[2]]>>)>>
    ELSE <<Iso(DaysBack(d, PresetDays[p])), Iso(d)>>

\* C28: when a date_range_preset is supplied the explicit start and end
\* dates are never consulted: a recognized preset gives the range that the
\* preset and the clock alone determine, whatever the explicit dates are,
\* and a preset that is not one of the seven names ends in the date-range
\* error with exit code 1 and no query, even with two valid explicit dates.
C28_PresetAloneDecides ==
    (DateRangeResolved /\ Supplied(date_range_preset)) =>
        IF date_range_preset \in PresetTexts
        THEN date_range = ExpectedPresetRange(date_range_preset, today)
        ELSE FailedWithDiagnostic(DateRangeMessage)

C28_Witness ==
    /\ DateRangeResolved
    /\ date_range_preset = <<"LAST_30_DAYS">>
    /\ start_date = <<"2025-01-01">>
    /\ end_date = <<"2025-01-31">>
    /\ today = <<2024, 3, 1>>
    /\ date_range = <<"2024-01-31", "2024-03-01">>

\* C30: a min_conversions= token whose value is not a number is not dropped:
\* once the date range is resolved the build ends with the 'Error: ...'
\* message of main and exit code 1, and no request has been sent.
C30_NonNumericThresholdIsAnError ==
    (qPc # "called" /\ date_range # <<>>
        /\ \E f \in Range(filters) : f = <<"min_conversions", "abc">>) =>
        /\ qPc = "exited"
        /\ exit_code = <<1>>
        /\ stdout = << <<"Error:", "ValueError">> >>
        /\ search_calls = <<>>
        /\ query = <<>>

C30_Witness ==
    /\ qPc = "exited"
    /\ filters = << <<"campaign_id", "123">>, <<"min_conversions", "abc">> >>
    /\ date_range = <<"2025-01-05", "2025-01-31">>
    /\ stdout = << <<"Error:", "ValueError">> >>
    /\ search_calls = <<>>

(***************************************************************************)
(* Claims about the scripts that send one request after the other.         *)
(***************************************************************************)
\* The texts with "; " between them.
RECURSIVE Joined(_)
Joined(texts) ==
    IF texts = <<>> THEN ""
    ELSE IF Len(texts) = 1 THEN texts[1]
    ELSE texts[1] \o "; " \o Joined(Tail(texts))
\* The lists of a list, one after the other.
RECURSIVE Concat(_)
Concat(lists) == IF lists = <<>> THEN <<>> ELSE lists[1] \o Concat(Tail(lists))
\* No file was created or written by the run.
NoFileWritten == saved_csv \in {<<>>, StaleReport}
\* A line with this text in it was printed.
Printed(text) ==
    \E i \in 1 .. Len(stdout) : \E j \in 1 .. Len(stdout[i]) : stdout[i][j] = text

\* C21: in every row of the disapproved ads reports the columns Policy Topic,
\* Policy Type and Evidence Text are the topics of the row's policy topic
\* entries, their type names, and the evidence texts of all entries and all
\* evidences in iteration order, each joined with "; "; a row without entries
\* has three empty strings; the rows of the file are these rows.
C21_PolicyColumnsJoined ==
    (script = "disapproved_ads_reports" /\ requests # <<>>) =>
        /\ Len(all_rows) = Len(response.rows)
        /\ \A i \in 1 .. Len(all_rows) :
              LET entries == response.rows[i].policy_topic_entries
                  n == Len(entries)
              IN  /\ all_rows[i][6] = Joined([k \in 1 .. n |-> entries[k].topic])
                  /\ all_rows[i][7] = Joined([k \in 1 .. n |-> entries[k].type_])
                  /\ all_rows[i][8] =
                        Joined(Concat([k \in 1 .. n |-> Concat(entries[k].evidences)]))
                  /\ n = 0 => /\ all_rows[i][6] = ""
                              /\ all_rows[i][7] = ""
                              /\ all_rows[i][8] = ""
        /\ ~NoFileWritten => saved_csv = <<DisapprovedAdsHeaders>> \o all_rows

C21_Witness ==
    /\ script = "disapproved_ads_reports"
    /\ sPc = "returned"
    /\ Len(all_rows) = 2
    /\ all_rows[1][6] = "ALCOHOL; "
    /\ all_rows[1][7] = "PROHIBITED; UNKNOWN"
    /\ all_rows[1][8] = "beer; wine; gin; x; y"
    /\ all_rows[2][6] = ""
    /\ all_rows[2][8] = ""
    /\ saved_csv = <<DisapprovedAdsHeaders>> \o all_rows

\* The arguments hold one of the configuration errors.
ConfigurationError ==
    \/ /\ script = "conversion_reports"
       /\ args.report_type \notin {"actions", "performance"}
    \/ /\ script = "disapproved_ads_reports"
       /\ args.report_type \notin {"all", "single"}
    \/ /\ script = "disapproved_ads_reports"
       /\ args.report_type = "single"
       /\ args.campaign_id \in {<<>>, <<"">>}
    \/ /\ script = "remove_automatically_created_assets"
       /\ args.field_type \in {"INVALID_TYPE", ""}

\* C22: with an unsupported report type (conversion_reports,
\* disapproved_ads_reports), a missing campaign ID for the 'single'
\* disapproved ads report, or an asset field type that names no member of the
\* enum, the run ends with its message and exit code 1, and has sent no
\* request to the collaborator and written no file.
C22_ConfigurationErrorEndsTheRun ==
    (ConfigurationError /\ sPc # "called") =>
        /\ sPc = "exited"
        /\ exit_code = <<1>>
        /\ uncaught = <<>>
        /\ Len(stdout) = 1
        /\ requests = <<>>
        /\ NoFileWritten

C22_Witness ==
    /\ script = "disapproved_ads_reports"
    /\ args.report_type = "single"
    /\ args.campaign_id = <<>>
    /\ args.output_file = <<"out.csv">>
    /\ sPc = "exited"
    /\ exit_code = <<1>>
    /\ requests = <<>>
    /\ saved_csv = <<>>

\* C23 as stated: in each of these scripts every GoogleAdsException of a
\* request (raised by the call or by its stream) is fatal: the run has ended
\* with exit code 1, after which no request is sent, and the diagnostic was
\* printed: the request id, the status, the message of each error and the
\* fields of its location.
C23_CollaboratorErrorIsFatal ==
    \A i \in 1 .. Len(requests) :
        requests[i].outcome = "failed" =>
            LET ex == requests[i].ex
            IN  /\ sPc = "exited"
                /\ exit_code = <<1>>
                /\ Printed(ex.request_id)
                /\ Printed(ex.status)
                /\ \A e \in 1 .. Len(ex.errors) :
                      /\ Printed(ex.errors[e].message)
                      /\ \A f \in 1 .. Len(ex.errors[e].fields) :
                            Printed(ex.errors[e].fields[f])

\* C24: in get_geo_targets a GoogleAdsException of the request for a geo
\* target constant does not end the run: a line that names the constant is
\* printed, the criterion is reported with name, canonical name and country
\* code 'Unknown', and every row the stream of criteria delivers is looked up
\* and reported; only a failure of the request for the criteria ends the run.
C24_FailedLookupDoesNotAbort ==
    script = "get_geo_targets" =>
        /\ \A i \in 2 .. Len(requests) :
              requests[i].outcome = "failed" =>
                  LET row == response.rows[i - 1]
                  IN  /\ \E k \in 1 .. Len(stdout) - 1 :
                            /\ stdout[k][1] = "Error retrieving geo target details for"
                            /\ stdout[k][2] = "geoTargetConstants/" \o row.criterion_id
                            /\ stdout[k + 1] =
                                  <<"Campaign with ID", row.campaign_id, row.campaign_name,
                                    "Unknown", "Unknown", "Unknown", row.negative>>
                      /\ sPc \in {"exited", "raised"} => requests[1].outcome = "failed"
        /\ (sPc \notin {"called", "streaming"} /\ response.fails # "call") =>
              /\ Len(requests) = 1 + Len(response.rows)
              /\ \A r \in 1 .. Len(response.rows) :
                    /\ requests[r + 1].arg =
                          "geoTargetConstants/" \o response.rows[r].criterion_id
                    /\ \E k \in 1 .. Len(stdout) :
                          /\ stdout[k][1] = "Campaign with ID"
                          /\ stdout[k][2] = response.rows[r].campaign_id

C24_Witness ==
    /\ script = "get_geo_targets"
    /\ sPc = "returned"
    /\ Len(requests) = 3
    /\ requests[2].outcome = "failed"
    /\ requests[3].outcome = "ok"
    /\ response.rows[2].criterion_id = "21137"
    /\ stdout[Len(stdout)] =
          <<"Campaign with ID", "123", "Test Campaign", "New York",
            "New York,United States", "US", "False">>

\* C25: create_campaign_experiment sends its requests in the order
\* mutate_experiments, mutate_experiment_arms, mutate_campaigns,
\* schedule_experiment; schedule_experiment is sent only after the three
\* others succeeded, for the resource name mutate_experiments returned; after
\* a failed request the run is over and nothing more is sent: nothing is
\* removed and the experiment is not scheduled.
C25_ExperimentStepsInOrder ==
    script = "create_campaign_experiment" =>
        /\ Len(requests) <= 4
        /\ \A i \in 1 .. Len(requests) :
              /\ requests[i].method =
                    <<"mutate_experiments", "mutate_experiment_arms", "mutate_campaigns",
                      "schedule_experiment">>[i]
              /\ requests[i].method = "schedule_experiment" =>
                    /\ \A j \in 1 .. i - 1 : requests[j].outcome = "ok"
                    /\ requests[i].arg = requests[1].result
              /\ requests[i].outcome = "failed" =>
                    /\ i = Len(requests)
                    /\ sPc \in {"exited", "raised"}

C25_Witness ==
    /\ script = "create_campaign_experiment"
    /\ sPc = "returned"
    /\ Len(requests) = 4
    /\ requests[1].result = "customers/1/experiments/8"
    /\ requests[4].method = "schedule_experiment"
    /\ requests[4].arg = "customers/1/experiments/8"
    /\ requests[4].outcome = "ok"

\* C26: add_campaign_with_date_times sends mutate_campaigns only after
\* mutate_campaign_budgets succeeded, and the campaign it creates has as its
\* campaign_budget the resource name that request returned; when the budget
\* request fails the run exits with code 1 and mutate_campaigns is never sent.
C26_CampaignAfterBudget ==
    script = "add_campaign_with_date_times" =>
        /\ \A i \in 1 .. Len(requests) :
              requests[i].method = "mutate_campaigns" =>
                  /\ i = 2
                  /\ requests[1].method = "mutate_campaign_budgets"
                  /\ requests[1].outcome = "ok"
                  /\ campaign.campaign_budget = requests[1].result
                  /\ requests[i].arg = requests[1].result
        /\ (requests # <<>> /\ requests[1].outcome = "failed") =>
              /\ requests[1].method = "mutate_campaign_budgets"
              /\ Len(requests) = 1
              /\ sPc = "exited"
              /\ exit_code = <<1>>

C26_Witness ==
    /\ script = "add_campaign_with_date_times"
    /\ sPc = "returned"
    /\ Len(requests) = 2
    /\ requests[1].result = "customers/1/campaignBudgets/2"
    /\ requests[2].method = "mutate_campaigns"
    /\ campaign.campaign_budget = "customers/1/campaignBudgets/2"

\* The day n days after d, found month by month.
RECURSIVE DaysForward(_, _)
DaysForward(d, n) ==
    IF d[3] + n <= MonthLengths(d[1])[d[2]] THEN <<d[1], d[2], d[3] + n>>
    ELSE DaysForward(IF d[2] = 12 THEN <<d[1] + 1, 1, 1>> ELSE <<d[1], d[2] + 1, 1>>,
                     n - (MonthLengths(d[1])[d[2]] - d[3]) - 1)
\* The time of day of the run, as strftime writes it.
ClockText == IF args.now[4] = 0 THEN " 00:00:00" ELSE " 23:59:59"

\* C27 as stated: the campaign created has its start date time 1 day after
\* now and its end date time 30 days after now, the start before the end.
C27_StartInOneDayEndInThirtyDays ==
    (script = "add_campaign_with_date_times" /\ Len(requests) = 2) =>
        LET start_day == DaysForward(args.now, 1)
            end_day == DaysForward(args.now, 30)
        IN  /\ campaign.start_date_time = Iso(start_day) \o ClockText
            /\ campaign.end_date_time = Iso(end_day) \o ClockText
            /\ start_day # end_day
            /\ Before(start_day, end_day)

\* C29 as stated: no run of conversion_reports, disapproved_ads_reports or
\* ai_max_reports in which a request or its stream raised GoogleAdsException
\* has created, truncated or written the file of the report.
C29_NoFileTouchedOnCollaboratorError ==
    (/\ script \in {"conversion_reports", "disapproved_ads_reports", "ai_max_reports"}
     /\ \E i \in 1 .. Len(requests) : requests[i].outcome = "failed") =>
        NoFileWritten

====
